---- MODULE Spec2Model ----
(***************************************************************************)
(* Model of the DLT backend's access-control pipeline: process startup,    *)
(* the express middleware chain (session, origin check, authorization      *)
(* gate, JSON body parser, CSRF check, routes), the memoized allowed-group *)
(* resolution and the session store (Spec; SpecCookie is the same with     *)
(* DLT_COOKIE_SECURE set); the functions of the directory client, each     *)
(* called by itself (SpecAd); the handlers of GET /api/groupMembers        *)
(* (SpecMembers) and POST /api/checkout (SpecCheckout); GET /api/status    *)
(* after checkouts (SpecStatus), beside the poller (SpecPoll) and as the   *)
(* rows of the checkout table age (SpecExpiry).                            *)
(***************************************************************************)
EXTENDS Integers, Sequences, FiniteSets, TLC

\* ------------------------------------------------------------------ bounds
\* Request slots: the number of requests that can be in flight at once.
MaxReq == 2
\* Session ids the store ever issues.
MaxSess == 1
\* Distinct values randomToken() can return.
MaxTok == 2
\* Saturation of the directory-call counters.
MaxCalls == 2
\* Longest text handed to a function of the directory client.
MaxLen == 3
\* Most directory entries that match one query.
MaxMatch == 2
\* Calls of poll() the interval timer makes.
MaxPolls == 3

\* Steps of each size the clock takes.
MaxClock == 1

Req == 1..MaxReq
SIDs == 1..MaxSess
\* The rows of the session table: the /api handlers are run on one session
\* more than the gate establishes.
ApiSIDs == 1..(MaxSess + 1)

\* ------------------------------------------------------------- value sets
\* JavaScript null / undefined.
Null == "<null>"
\* The empty string that `x || ''` yields for an absent header, cookie or token.
NoToken == <<>>

\* The base64url alphabet of randomToken(), by a letter, a digit and its two
\* other characters, and the t-th value randomToken() can return.
Base64Url == <<"A", "9", "-", "_">>
TokenText(t) == <<Base64Url[((t - 1) % 4) + 1], Base64Url[(t % 4) + 1]>>
Tokens == {TokenText(t) : t \in 1..MaxTok}

\* process.env.DLT_COOKIE_SECURE as a deployment can set it.
EnvValues == {"true", "false"}

\* No XSRF-TOKEN entry in the Set-Cookie header.
NoCookie ==
  [name |-> "", value |-> <<>>, path |-> "", sameSite |-> "",
   secure |-> FALSE, httpOnly |-> FALSE]
\* No session id cookie, or a session that has not been written to the store.
NoSid == 0

ACCESS_DENIED_BODY == "Access Denied"

Methods == {"GET", "POST"}
\* req.method as requireCsrf can be handed it on its own: the safe methods,
\* others, and spellings of both in other cases.
AnyMethods ==
  {"GET", "get", "Get", "HEAD", "head", "OPTIONS", "options",
   "POST", "post", "PUT", "DELETE", "PATCH", "getx"}
\* Values of the Origin header: Null when the request has none, "" when the
\* header is there with an empty value.
Origins ==
  {Null, "", "null", "http://dlt:9191", "HTTP://DLT:9191", "http://evil:9191"}

\* Values of the Host header, Null when the request has none.
Hosts == {Null, "dlt:9191"}
Paths == {"/api/session", "/api/logout", "/"}

\* The entries the directory can hold for the allowed group. What the
\* directory holds when a call is answered is an input of that step.
DN1 == "CN=IT-Staff,OU=Groups,DC=corp,DC=local"
DN2 == "CN=IT-Staff,OU=Moved,DC=corp,DC=local"
DNs == {DN1, DN2}
\* A third entry, for queries that more than two entries match.
DN3 == "CN=IT-Staff,OU=Legacy,DC=corp,DC=local"
\* config.allowedAdGroup is 'CORP\IT-Staff': parseAllowedGroup yields this domain.
ConfigDomain == "CORP"
\* req.sso.user.domain: absent, the configured domain, another domain.
UserDomains == {Null, "CORP", "OTHER"}

\* A string the directory client takes apart is a sequence of symbols: a
\* letter, the backslash, the blank and the closing parenthesis.
Chars == {"j", "\\", " ", ")"}
Texts == UNION {[1..n -> Chars] : n \in 0..MaxLen}

\* The symbols escapeLdapFilter rewrites, and two it leaves alone; "NUL" is
\* the character with code 0.
EscChars == {"\\", "*", "(", ")", "NUL", "2", "a"}
EscTexts == UNION {[1..n -> EscChars] : n \in 0..MaxLen}

\* A group spec is a sequence of the pieces its patterns tell apart: the
\* prefix S-1- in upper and in lower case, a digit, the dash, a letter and the
\* backslash. The shortest security identifier of the strict pattern has four.
GroupChars == {"S-1-", "s-1-", "9", "-", "x", "\\"}
GroupSpecs == UNION {[1..n -> GroupChars] : n \in 0..(MaxLen + 1)}

\* A run of n letters.
Letters(n) == [i \in 1..n |-> "j"]

\* Texts around the length limit of a checkout user: 256 letters, 257
\* letters, and 256 letters after a blank.
LongTexts == {Letters(256), Letters(257), <<" ">> \o Letters(256)}

\* What the SSO middleware leaves in req.sso.user.
SsoUsers ==
  { [domain |-> Null, name |-> Null],
    [domain |-> "CORP", name |-> ""],
    [domain |-> "CORP", name |-> "jdoe"] }

\* ------------------------------------------------------------------ state
VARIABLES
  proc,                \* where main() is: "loading", "validating", ..., "serving"
  allowedGroupPromise, \* the gate's memoized promise
  startupCalls,        \* resolveAllowedGroupDN calls issued by main()
  gateCalls,           \* resolveAllowedGroupDN calls issued by getAllowedGroup
  store,               \* the session store: sid -> session
  nextSid,             \* the next session id the store issues
  req,                 \* the requests in flight, one record per slot
  ad,                  \* the last call of a function on its own
  statusCache,         \* makeStatusCache(): statuses, member list, its time
  db,                  \* the checkout table: computerName -> row
  now,                 \* Date.now(), in milliseconds since the process started
  env,                 \* process.env.DLT_COOKIE_SECURE
  polls                \* the calls of poll() the interval timer made, in order

vars ==
  <<proc, allowedGroupPromise, startupCalls, gateCalls, store, nextSid, req,
    ad, statusCache, db, now, env, polls>>

\* The state the middleware chain does not change.
apiVars == <<statusCache, db, now, env, polls>>

\* ------------------------------------------------------------- data model
\* SessionData; exists = FALSE is a destroyed (or never stored) session.
NoSession ==
  [exists |-> FALSE, auth |-> Null, csrf |-> NoToken,
   allowedGroupDN |-> Null, allowedGroupDomain |-> Null]

\* A session express-session generated for a request that presented none.
FreshSession == [NoSession EXCEPT !.exists = TRUE]

\* A response before any handler touched it.
NewRes ==
  [ended |-> FALSE, status |-> 200, contentType |-> "", cacheControl |-> "",
   pragma |-> "", wwwAuthenticate |-> "", setXsrf |-> NoCookie, body |-> ""]

NoId == [user |-> Null, domain |-> Null, name |-> Null]

NoAllowed == [groupDN |-> Null, groupDomainLabel |-> Null]

\* config.computers, and the computer names a checkout request can carry.
Computers == {"PC1"}
ComputerNames == {"PC1", "pc1", "PC9", ""}

\* String.prototype.toLowerCase on the computer names.
toLowerCase(c) == IF c = "PC1" THEN "pc1" ELSE IF c = "PC9" THEN "pc9" ELSE c

\* The text of a time stamp, by what Date.parse makes of it: `new
\* Date(t).toISOString()` is the text of the instant t, to the millisecond,
\* NotADate a text that Date.parse turns into NaN, NullDate a null.
toISOString(t) == [kind |-> "iso", ms |-> t]
NotADate == [kind |-> "text", ms |-> 0]
NullDate == [kind |-> "null", ms |-> 0]

\* Date.parse(text): the instant, or NaN (finite |-> FALSE).
DateParse(text) ==
  IF text.kind = "iso" THEN [finite |-> TRUE, value |-> text.ms]
  ELSE [finite |-> FALSE, value |-> 0]

\* A row of the checkout table; NoRow: the computer has none.
NoRow ==
  [present |-> FALSE, checkoutUser |-> "", lastUpdatedBy |-> "",
   lastUpdatedAtUtc |-> NullDate]

\* What pollAllComputers can return for the configured computer, as poll hands
\* it to setStatuses: the computer answers and has a user, or it does not
\* answer.
StatusRows ==
  { [computerName |-> "PC1", ipAddress |-> "10.0.0.1", alive |-> "true",
     errorMessage |-> "", loggedInUser |-> "CORP\\jdoe"],
    [computerName |-> "PC1", ipAddress |-> "Unknown", alive |-> "false",
     errorMessage |-> "TCP: timeout:135", loggedInUser |-> "Unknown"] }

PollResults == {<<s>> : s \in StatusRows}

\* The persons the member search finds, by the three properties the script
\* loads; "" is a property the entry does not have.
DirPersons ==
  [sam : {"", "jdoe"}, upn : {"", "jdoe@corp.local"},
   displayName : {"", "John Doe"}]

\* The results of a member search, in the order the directory gives them.
PersonLists == UNION {[1..n -> DirPersons] : n \in 0..MaxMatch}

\* The results of the member search the handler of GET /api/groupMembers is
\* run against: none, one person, another person, and an entry with a display
\* name only, which the function leaves out of its list.
MemberAnswers ==
  { <<>>,
    <<[sam |-> "jdoe", upn |-> "", displayName |-> "John Doe"]>>,
    <<[sam |-> "", upn |-> "jdoe@corp.local", displayName |-> ""]>>,
    <<[sam |-> "", upn |-> "", displayName |-> "John Doe"]>> }

\* The one entry the checkout search reads, as the (trimmed) account name and
\* principal name.
DirEntries ==
  { [sam |-> "jdoe", upn |-> "jdoe@corp.local"],
    [sam |-> "", upn |-> ""] }

\* makeStatusCache() as constructed: no statuses, groupMembers = null
\* (stored |-> FALSE), groupMembersAt = 0.
EmptyCache ==
  [statuses |-> <<>>, stored |-> FALSE, members |-> <<>>, groupMembersAt |-> 0]

\* The body a checkout request carries, as far as the handler keeps it.
NoBody == [computerName |-> "", checkoutUser |-> <<>>]

\* The LDAP filter of isUserInGroup, by the two values put into its template.
MemberFilter(sam, groupDN) == [sAMAccountName |-> sam, memberOf |-> groupDN]

NoFilter == MemberFilter(<<>>, <<>>)

\* No call of isUserInGroup was made.
NoCheck == [called |-> FALSE, filter |-> NoFilter, result |-> Null]

IdleReq ==
  [pc |-> "idle", method |-> Null, hasAuth |-> FALSE,
   sessionID |-> NoSid, session |-> NoSession, dirty |-> FALSE,
   id |-> NoId, allowed |-> NoAllowed, check |-> NoCheck,
   header |-> NoToken, cookie |-> NoToken, body |-> NoBody,
   origin |-> Null, host |-> Null,
   res |-> NewRes, cause |-> "", audit |-> <<>>]

NullPromise == [state |-> "null", groupDN |-> Null, groupDomainLabel |-> Null]

\* No directory-client function has been called on its own.
NoCall ==
  [fn |-> "none", up |-> FALSE, matching |-> 0, userName |-> <<>>,
   groups |-> {}, input |-> <<>>, entry |-> Null, domainLabel |-> Null,
   method |-> Null, header |-> NoToken, cookie |-> NoToken,
   expected |-> NoToken, out |-> Null]

\* ------------------------------------------------------- pure functions
\* The lifetime of the member list, 5 * 60 * 1000 milliseconds.
FIVE_MINUTES == 5 * 60 * 1000

\* 24 * 60 * 60 * 1000 milliseconds.
DAY_MS == 24 * 60 * 60 * 1000

SEVEN_DAYS_MS == 7 * 24 * 60 * 60 * 1000

\* getGroupMembers dropping the list as soon as it is five minutes old.
getGroupMembers_ExpiresAtFive(cache, t) ==
  IF ~cache.stored THEN [hit |-> FALSE, members |-> <<>>]
  ELSE IF t - cache.groupMembersAt >= FIVE_MINUTES
  THEN [hit |-> FALSE, members |-> <<>>]
  ELSE [hit |-> TRUE, members |-> cache.members]

\* statusCache.getGroupMembers(): hit |-> FALSE is the returned null.
getGroupMembers(cache, t) ==
  IF ~cache.stored THEN [hit |-> FALSE, members |-> <<>>]
  ELSE IF t - cache.groupMembersAt > FIVE_MINUTES
  THEN [hit |-> FALSE, members |-> <<>>]
  ELSE [hit |-> TRUE, members |-> cache.members]

\* setGroupMembers keeping a list that is stored and not older than five
\* minutes: of two enumerations the first to return wins.
setGroupMembers_KeepsFirst(cache, v, t) ==
  IF cache.stored /\ t - cache.groupMembersAt <= FIVE_MINUTES THEN cache
  ELSE [cache EXCEPT !.stored = TRUE, !.members = v, !.groupMembersAt = t]

\* statusCache.setGroupMembers(v).
setGroupMembers(cache, v, t) ==
  [cache EXCEPT !.stored = TRUE, !.members = v, !.groupMembersAt = t]

\* JavaScript truthiness of a string-or-null value.
Truthy(v) == v # Null /\ v # ""

Inc(n) == IF n < MaxCalls THEN n + 1 ELSE n

\* hardDeny answering with a JSON error object instead of the fixed text.
hardDeny_JsonBody(res, status, negotiate) ==
  [res EXCEPT !.ended = TRUE,
              !.status = status,
              !.contentType = "text/plain; charset=utf-8",
              !.cacheControl = "no-store",
              !.pragma = "no-cache",
              !.wwwAuthenticate = IF negotiate THEN "Negotiate" ELSE @,
              !.body = "{\"error\":\"Access Denied\"}"]

\* hardDeny setting the challenge header whatever `negotiate` says.
hardDeny_AlwaysNegotiate(res, status, negotiate) ==
  [res EXCEPT !.ended = TRUE,
              !.status = status,
              !.contentType = "text/plain; charset=utf-8",
              !.cacheControl = "no-store",
              !.pragma = "no-cache",
              !.wwwAuthenticate = "Negotiate",
              !.body = ACCESS_DENIED_BODY]

\* hardDeny without the Cache-Control header.
hardDeny_Cacheable(res, status, negotiate) ==
  [res EXCEPT !.ended = TRUE,
              !.status = status,
              !.contentType = "text/plain; charset=utf-8",
              !.pragma = "no-cache",
              !.wwwAuthenticate = IF negotiate THEN "Negotiate" ELSE @,
              !.body = ACCESS_DENIED_BODY]

\* hardDeny(res, status, negotiate): headers set earlier on res stay.
hardDeny(res, status, negotiate) ==
  [res EXCEPT !.ended = TRUE,
              !.status = status,
              !.contentType = "text/plain; charset=utf-8",
              !.cacheControl = "no-store",
              !.pragma = "no-cache",
              !.wwwAuthenticate = IF negotiate THEN "Negotiate" ELSE @,
              !.body = ACCESS_DENIED_BODY]

\* buildUserLabel(req): null unless req.sso.user has a name.
buildUserLabel(u) ==
  IF ~Truthy(u.name) THEN NoId
  ELSE [user |-> IF Truthy(u.domain) THEN u.domain \o "\\" \o u.name ELSE u.name,
        domain |-> u.domain,
        name |-> u.name]

\* encodeURIComponent on one symbol: letters, digits and - _ . ! ~ * ' ( )
\* stay, any other character becomes % and its two hexadecimal digits.
encodeChar(c) ==
  CASE c = "+" -> <<"%", "2", "B">>
    [] c = "/" -> <<"%", "2", "F">>
    [] c = "=" -> <<"%", "3", "D">>
    [] c = "%" -> <<"%", "2", "5">>
    [] OTHER -> <<c>>

RECURSIVE encodeURIComponent(_)
encodeURIComponent(v) ==
  IF v = <<>> THEN <<>> ELSE encodeChar(Head(v)) \o encodeURIComponent(Tail(v))

\* The character of an escape sequence of encodeChar.
decodeHex(hi, lo) ==
  CASE hi = "2" /\ lo = "B" -> "+"
    [] hi = "2" /\ lo = "F" -> "/"
    [] hi = "3" /\ lo = "D" -> "="
    [] hi = "2" /\ lo = "5" -> "%"
    [] OTHER -> "?"

\* decodeURIComponent, as the client's getCookie and cookie-parser apply it to
\* the value of a cookie.
RECURSIVE decodeURIComponent(_)
decodeURIComponent(v) ==
  IF v = <<>> THEN <<>>
  ELSE IF Head(v) = "%" /\ Len(v) >= 3
  THEN <<decodeHex(v[2], v[3])>> \o decodeURIComponent(SubSeq(v, 4, Len(v)))
  ELSE <<Head(v)>> \o decodeURIComponent(Tail(v))

\* ensureCsrfCookie marking the cookie Secure whenever the variable is set.
ensureCsrfCookie_SecureWhenSet(session, res, e) ==
  IF session.csrf = NoToken THEN res
  ELSE [res EXCEPT !.setXsrf =
          [name |-> "XSRF-TOKEN", value |-> encodeURIComponent(session.csrf),
           path |-> "/", sameSite |-> "Strict",
           secure |-> (e # Null /\ e # ""), httpOnly |-> FALSE]]

\* ensureCsrfCookie(req, res): append the XSRF-TOKEN cookie when a token
\* exists; e is process.env.DLT_COOKIE_SECURE.
ensureCsrfCookie(session, res, e) ==
  IF session.csrf = NoToken THEN res
  ELSE [res EXCEPT !.setXsrf =
          [name |-> "XSRF-TOKEN", value |-> encodeURIComponent(session.csrf),
           path |-> "/", sameSite |-> "Strict",
           secure |-> (e = "true"), httpOnly |-> FALSE]]

\* String.prototype.toUpperCase on the methods of AnyMethods.
toUpperCase(method) ==
  CASE method \in {"get", "Get"} -> "GET"
    [] method = "head" -> "HEAD"
    [] method = "options" -> "OPTIONS"
    [] method = "post" -> "POST"
    [] method = "getx" -> "GETX"
    [] OTHER -> method

\* requireCsrf comparing req.method as it came.
IsSafeMethod_CaseSensitive(method) == method \in {"GET", "HEAD", "OPTIONS"}

\* requireCsrf's method test.
IsSafeMethod(method) == toUpperCase(method) \in {"GET", "HEAD", "OPTIONS"}

\* requireCsrf comparing the header with the cookie only (plain double submit).
CsrfRejects_CookieOnly(header, cookie, expected) ==
  \/ header = NoToken
  \/ cookie = NoToken
  \/ expected = NoToken
  \/ header # cookie

\* requireCsrf's rejection condition on header, cookie and session token.
CsrfRejects(header, cookie, expected) ==
  \/ header = NoToken
  \/ cookie = NoToken
  \/ expected = NoToken
  \/ header # cookie
  \/ header # expected

\* requireCsrf(req, res, next) by its outcome: "next", or "deny" for
\* hardDeny(res, 403).
CsrfOutcome(method, header, cookie, expected) ==
  IF IsSafeMethod(method) THEN "next"
  ELSE IF CsrfRejects(header, cookie, expected) THEN "deny"
  ELSE "next"

\* `new URL(origin).host`: the host and port of the parsed URL, lower case,
\* or "throws" when the constructor throws.
UrlHost(origin) ==
  CASE origin = "http://dlt:9191" -> "dlt:9191"
    [] origin = "HTTP://DLT:9191" -> "dlt:9191"
    [] origin = "http://evil:9191" -> "evil:9191"
    [] OTHER -> "throws"

\* The same-origin middleware: TRUE when the request goes on to the gate.
OriginPasses(origin, host) ==
  IF ~Truthy(origin) THEN TRUE
  ELSE IF UrlHost(origin) = "throws" THEN FALSE
  ELSE Truthy(host) /\ UrlHost(origin) = host

\* authz letting a request without a credential header through.
AuthzEntry_FailOpen(session, hasAuth) ==
  IF Truthy(session.auth) \/ ~hasAuth THEN "next" ELSE "sso"

\* authz without its first test: every request is put through the handshake.
AuthzEntry_AlwaysHandshake(session, hasAuth) ==
  IF ~hasAuth THEN "challenge" ELSE "sso"

\* The first two tests of authz: session already authorized, credential header.
AuthzEntry(session, hasAuth) ==
  IF Truthy(session.auth) THEN "next"
  ELSE IF ~hasAuth THEN "challenge"
  ELSE "sso"

\* getAllowedGroup caching the value only once it has arrived.
NeedsResolve_NoSingleFlight(p) == p.state \in {"null", "pending"}

\* getAllowedGroup resolving again although a value is cached.
NeedsResolve_Refresh(p) == p.state \in {"null", "fulfilled"}

\* `!allowedGroupPromise` in getAllowedGroup.
NeedsResolve(p) == p.state = "null"

\* String.prototype.trim on a text.
RECURSIVE trimStart(_)
trimStart(v) == IF v # <<>> /\ Head(v) = " " THEN trimStart(Tail(v)) ELSE v

RECURSIVE trimEnd(_)
trimEnd(v) ==
  IF v # <<>> /\ v[Len(v)] = " " THEN trimEnd(SubSeq(v, 1, Len(v) - 1)) ELSE v

trim(v) == trimEnd(trimStart(v))

\* stripDomainPrefix: /^([^\\]+)\\(.+)$/ on the trimmed text matches when the
\* first backslash has a symbol before it and a symbol after it; the result is
\* then what follows that backslash, and the trimmed text otherwise.
stripDomainPrefix(v) ==
  LET t == trim(v)
      slashes == {i \in 1..Len(t) : t[i] = "\\"}
      first == CHOOSE i \in slashes : \A k \in slashes : i <= k
  IN IF slashes # {} /\ first > 1 /\ first < Len(t)
     THEN SubSeq(t, first + 1, Len(t))
     ELSE t

\* String.prototype.replace with a global pattern for one character: every
\* occurrence of c in v becomes the text `by`.
RECURSIVE replaceBetween(_, _, _, _, _)
replaceBetween(v, c, by, lo, hi) ==
  IF lo > hi THEN <<>>
  ELSE IF lo = hi THEN (IF v[lo] = c THEN by ELSE <<v[lo]>>)
  ELSE LET mid == (lo + hi) \div 2 IN
       replaceBetween(v, c, by, lo, mid) \o replaceBetween(v, c, by, mid + 1, hi)

replaceAll(v, c, by) == replaceBetween(v, c, by, 1, Len(v))

\* escapeLdapFilter without the replacement of the backslash.
escapeLdapFilter_KeepsBackslash(v) ==
  LET r2 == replaceAll(v, "*", <<"\\", "2", "a">>)
      r3 == replaceAll(r2, "(", <<"\\", "2", "8">>)
      r4 == replaceAll(r3, ")", <<"\\", "2", "9">>)
  IN replaceAll(r4, "NUL", <<"\\", "0", "0">>)

\* escapeLdapFilter without the replacement of the closing parenthesis.
escapeLdapFilter_KeepsParen(v) ==
  LET r1 == replaceAll(v, "\\", <<"\\", "5", "c">>)
      r2 == replaceAll(r1, "*", <<"\\", "2", "a">>)
      r3 == replaceAll(r2, "(", <<"\\", "2", "8">>)
  IN replaceAll(r3, "NUL", <<"\\", "0", "0">>)

\* escapeLdapFilter: five replacements one after the other, the backslash first.
escapeLdapFilter(v) ==
  LET r1 == replaceAll(v, "\\", <<"\\", "5", "c">>)
      r2 == replaceAll(r1, "*", <<"\\", "2", "a">>)
      r3 == replaceAll(r2, "(", <<"\\", "2", "8">>)
      r4 == replaceAll(r3, ")", <<"\\", "2", "9">>)
  IN replaceAll(r4, "NUL", <<"\\", "0", "0">>)

\* A distinguished name as a text: one symbol, none that escapeLdapFilter
\* rewrites.
DnText(dn) == <<dn>>

\* The filter string of isUserInGroup: its template around the two escaped
\* values, the fixed parts as one symbol each.
MemberFilterText(filter) ==
  <<"(", "&", "(", "objectCategory=person", ")", "(", "objectClass=user", ")",
    "(", "sAMAccountName=">> \o filter.sAMAccountName
  \o <<")", "(", "memberOf:1.2.840.113556.1.4.1941:=">> \o filter.memberOf
  \o <<")", ")">>

\* \d+(-\d+)+ on a text: digits and dashes only, a digit first and last, no
\* two dashes in a row, at least one dash.
DigitGroups(v) ==
  /\ v # <<>>
  /\ \A i \in 1..Len(v) : v[i] \in {"9", "-"}
  /\ v[1] = "9" /\ v[Len(v)] = "9"
  /\ \A i \in 1..(Len(v) - 1) : ~(v[i] = "-" /\ v[i + 1] = "-")
  /\ \E i \in 1..Len(v) : v[i] = "-"

\* /^S-1-\d+(-\d+)+$/i of parseAllowedGroup.
StrictSid(v) ==
  /\ v # <<>>
  /\ v[1] \in {"S-1-", "s-1-"}
  /\ DigitGroups(Tail(v))

\* parseAllowedGroup(allowedAdGroup): a security identifier as it is, or the
\* domain and the name around the first backslash, or the name alone.
parseAllowedGroup(allowedAdGroup) ==
  LET v == trim(allowedAdGroup)
      slashes == {i \in 1..Len(v) : v[i] = "\\"}
      first == CHOOSE i \in slashes : \A k \in slashes : i <= k
  IN IF StrictSid(v) THEN [domain |-> Null, groupNameOrSid |-> v]
     ELSE IF slashes # {} /\ first > 1 /\ first < Len(v)
     THEN [domain |-> SubSeq(v, 1, first - 1),
           groupNameOrSid |-> SubSeq(v, first + 1, Len(v))]
     ELSE [domain |-> Null, groupNameOrSid |-> v]

\* `isSid` of resolveAllowedGroupDN: /^S-1-/.test(groupNameOrSid).
isSid(groupNameOrSid) ==
  groupNameOrSid # <<>> /\ groupNameOrSid[1] = "S-1-"

\* The filter resolveAllowedGroupDN searches with: by objectSid when isSid,
\* by sAMAccountName or cn otherwise.
GroupFilter(allowedAdGroup) ==
  LET parsed == parseAllowedGroup(allowedAdGroup) IN
  IF isSid(parsed.groupNameOrSid)
  THEN [by |-> "objectSid", value |-> parsed.groupNameOrSid]
  ELSE [by |-> "name", value |-> escapeLdapFilter(parsed.groupNameOrSid)]

\* DirectorySearcher.FindAll() under $searcher.SizeLimit: the number of
\* entries in the result when `matching` entries match the filter.
FindAll(matching, sizeLimit) ==
  IF matching > sizeLimit THEN sizeLimit ELSE matching

\* A script that printed nothing.
NoOutput == ""

\* runPsJson: the parsed output of the script, or a throw when PowerShell
\* fails, times out, or prints nothing.
runPsJson(up, out) == IF up /\ out # NoOutput THEN out ELSE "throws"

\* resolveAllowedGroupDN reading at most one entry and taking it.
resolveAllowedGroupDN_FirstOfSeveral(up, groups) ==
  IF up /\ FindAll(Cardinality(groups), 1) = 1
  THEN [state |-> "fulfilled",
        groupDN |-> CHOOSE g \in groups : TRUE,
        groupDomainLabel |-> ConfigDomain]
  ELSE [state |-> "rejected", groupDN |-> Null, groupDomainLabel |-> Null]

\* The promise resolveAllowedGroupDN returns, once the directory has answered:
\* the script reads up to two entries and throws unless it got exactly one;
\* `groups` are the entries matching the group filter.
resolveAllowedGroupDN(up, groups) ==
  IF up /\ FindAll(Cardinality(groups), 2) = 1
  THEN [state |-> "fulfilled",
        groupDN |-> CHOOSE g \in groups : TRUE,
        groupDomainLabel |-> ConfigDomain]
  ELSE [state |-> "rejected", groupDN |-> Null, groupDomainLabel |-> Null]

\* isUserInGroup refusing an identity of a domain other than the group's.
isUserInGroup_ChecksDomain(up, matching, userDomain, userName, groupDN) ==
  LET sam == stripDomainPrefix(userName) IN
  IF sam = <<>> \/ (userDomain # Null /\ userDomain # ConfigDomain)
  THEN [called |-> FALSE, filter |-> NoFilter, result |-> "false"]
  ELSE [called |-> TRUE, filter |-> MemberFilter(escapeLdapFilter(sam),
                                      escapeLdapFilter(DnText(groupDN))),
        result |-> runPsJson(up, IF FindAll(matching, 1) = 1
                                 THEN "true" ELSE "false")]

\* isUserInGroup(userDomain, userName, groupDN): called |-> whether the
\* directory was queried, filter |-> with what, result |-> "true", "false" or
\* "throws". `matching` is the number of person entries matching the filter.
\* userDomain is not read.
isUserInGroup(up, matching, userDomain, userName, groupDN) ==
  LET sam == stripDomainPrefix(userName) IN
  IF sam = <<>>
  THEN [called |-> FALSE, filter |-> NoFilter, result |-> "false"]
  ELSE [called |-> TRUE, filter |-> MemberFilter(escapeLdapFilter(sam),
                                      escapeLdapFilter(DnText(groupDN))),
        result |-> runPsJson(up, IF FindAll(matching, 1) = 1
                                 THEN "true" ELSE "false")]

\* An account name of the handshake as a text: one symbol, neither backslash
\* nor blank.
AsText(name) == IF name = "" THEN <<>> ELSE <<name>>

\* normalizeUserLabel preferring the bare account name to the principal name.
normalizeUserLabel_AccountFirst(domainLabel, sam, upn) ==
  IF Truthy(domainLabel) /\ sam # "" THEN domainLabel \o "\\" \o sam
  ELSE IF sam # "" THEN sam
  ELSE IF upn # "" THEN upn
  ELSE ""

\* normalizeUserLabel(domainLabel, sam, upn).
normalizeUserLabel(domainLabel, sam, upn) ==
  IF Truthy(domainLabel) /\ sam # "" THEN domainLabel \o "\\" \o sam
  ELSE IF upn # "" THEN upn
  ELSE IF sam # "" THEN sam
  ELSE ""

\* The loop of the member script: the display name of an entry falls back to
\* its account name, then to its principal name.
ScriptEntry(p) ==
  [sam |-> p.sam, upn |-> p.upn,
   displayName |-> IF p.displayName # "" THEN p.displayName
                   ELSE IF p.sam # "" THEN p.sam
                   ELSE p.upn]

\* `$out | ConvertTo-Json -Compress`: the pipeline hands the elements of $out
\* to ConvertTo-Json one by one, which prints an array for several, the object
\* itself for one, and nothing when there is none. text |-> what is printed,
\* as far as runPsJson looks at it.
ConvertToJson(out) ==
  [text |-> IF Len(out) = 0 THEN NoOutput ELSE "json",
   isArray |-> Len(out) > 1, items |-> out]

\* The body of the loop over `raw` in listAllowedGroupMembers.
GroupMember(e, domainLabel) ==
  [user |-> normalizeUserLabel(domainLabel, e.sam, e.upn),
   displayName |-> IF e.displayName # "" THEN e.displayName
                   ELSE IF e.sam # "" THEN e.sam
                   ELSE e.upn]

\* a.user.localeCompare(b.user) on the labels of the model, as the rank of
\* each: CORP\jdoe before jdoe before jdoe@corp.local.
UserRank(user) ==
  IF user = "CORP\\jdoe" THEN 1 ELSE IF user = "jdoe" THEN 2 ELSE 3

\* Array.prototype.sort with that comparison; the sort is stable.
RECURSIVE SortByUser(_)
SortByUser(members) ==
  IF members = <<>> THEN <<>>
  ELSE LET rest == SortByUser(Tail(members))
           m == Head(members)
           before == SelectSeq(rest, LAMBDA x : UserRank(x.user) < UserRank(m.user))
           after == SelectSeq(rest, LAMBDA x : UserRank(x.user) >= UserRank(m.user))
       IN before \o <<m>> \o after

\* listAllowedGroupMembers(groupDN, domainLabel): threw |-> runPsJson threw,
\* members |-> the returned list. `persons` are the results of the search.
listAllowedGroupMembers(up, persons, domainLabel) ==
  LET out == [i \in 1..Len(persons) |-> ScriptEntry(persons[i])]
      printed == ConvertToJson(out)
      raw == printed.items
      all == [i \in 1..Len(raw) |-> GroupMember(raw[i], domainLabel)]
  IN IF runPsJson(up, printed.text) = "throws"
     THEN [threw |-> TRUE, members |-> <<>>]
     ELSE [threw |-> FALSE,
           members |-> SortByUser(SelectSeq(all, LAMBDA m : m.user # ""))]

\* The class [A-Za-z0-9@._\\-] of the checkout pattern on the symbols of
\* Chars: in a regular expression literal \\ is the backslash, so the class
\* holds the letter and the backslash, not the blank or the parenthesis.
CheckoutUserChar(c) == c \in {"j", "\\"}

\* resolveAndValidateCheckoutUser returning null for an empty input.
validateBeforeQuery_EmptyIsInvalid(input) ==
  LET v == trim(input) IN
  IF v = <<>> THEN "invalid"
  ELSE IF Len(v) > 256 THEN "invalid"
  ELSE IF \E i \in 1..Len(v) : ~CheckoutUserChar(v[i]) THEN "invalid"
  ELSE "query"

\* resolveAndValidateCheckoutUser without its pattern test.
validateBeforeQuery_NoPattern(input) ==
  LET v == trim(input) IN
  IF v = <<>> THEN "empty"
  ELSE IF Len(v) > 256 THEN "invalid"
  ELSE "query"

\* resolveAndValidateCheckoutUser up to its directory query: "empty" returns
\* {normalized: ''}, "invalid" returns null, "query" goes on to the directory.
validateBeforeQuery(input) ==
  LET v == trim(input) IN
  IF v = <<>> THEN "empty"
  ELSE IF Len(v) > 256 THEN "invalid"
  ELSE IF \E i \in 1..Len(v) : ~CheckoutUserChar(v[i]) THEN "invalid"
  ELSE "query"

\* resolveAndValidateCheckoutUser reading at most one entry of the result.
validateAfterQuery_FirstOfSeveral(up, matching, entry, domainLabel) ==
  LET n == normalizeUserLabel(domainLabel, entry.sam, entry.upn) IN
  [kind |-> runPsJson(up, IF FindAll(matching, 1) # 1 \/ n = ""
                          THEN "null" ELSE "ok"),
   normalized |-> IF up /\ FindAll(matching, 1) = 1 THEN n ELSE ""]

\* resolveAndValidateCheckoutUser from its directory query on: the script reads
\* up to two entries and reports ok only for exactly one; `entry` is that one.
validateAfterQuery(up, matching, entry, domainLabel) ==
  LET n == normalizeUserLabel(domainLabel, entry.sam, entry.upn) IN
  [kind |-> runPsJson(up, IF FindAll(matching, 2) # 1 \/ n = ""
                          THEN "null" ELSE "ok"),
   normalized |-> IF up /\ FindAll(matching, 2) = 1 THEN n ELSE ""]

\* The LDAP filter of resolveAndValidateCheckoutUser, by the values put into
\* its template: rawUser is compared with both names of a person.
CheckoutFilter(rawUser, groupDN) ==
  [sAMAccountName |-> rawUser, userPrincipalName |-> rawUser,
   memberOf |-> groupDN]

\* resolveAndValidateCheckoutUser(input, groupDN, domainLabel): kind |-> "ok"
\* for a returned label, "null" or "throws"; called |-> whether the directory
\* was queried, filter |-> with what.
resolveAndValidateCheckoutUser(up, matching, entry, input, groupDN, domainLabel) ==
  LET pre == validateBeforeQuery(input)
      rawUser == stripDomainPrefix(trim(input))
      after == validateAfterQuery(up, matching, entry, domainLabel) IN
  IF pre = "empty"
  THEN [called |-> FALSE, filter |-> NoFilter, kind |-> "ok", normalized |-> ""]
  ELSE IF pre = "invalid"
  THEN [called |-> FALSE, filter |-> NoFilter, kind |-> "null", normalized |-> ""]
  ELSE [called |-> TRUE,
        filter |-> CheckoutFilter(escapeLdapFilter(rawUser),
                                  escapeLdapFilter(DnText(groupDN))),
        kind |-> after.kind, normalized |-> after.normalized]

\* upsertCheckout at instant t: the row is keyed by the computer name as the
\* request spelt it.
upsertCheckout(table, computerName, checkoutUser, lastUpdatedBy, t) ==
  [table EXCEPT ![computerName] =
     [present |-> TRUE, checkoutUser |-> checkoutUser,
      lastUpdatedBy |-> lastUpdatedBy, lastUpdatedAtUtc |-> toISOString(t)]]

\* A row of the table is expired at instant t.
expired_AtSevenDays(row, t) ==
  LET at == DateParse(row.lastUpdatedAtUtc) IN
  IF at.finite THEN t - at.value >= SEVEN_DAYS_MS ELSE TRUE

expired(row, t) ==
  LET at == DateParse(row.lastUpdatedAtUtc) IN
  IF at.finite THEN t - at.value > SEVEN_DAYS_MS ELSE TRUE

\* Math.floor(a / b) for a positive b.
Floor(a, b) == a \div b

\* The entry of the map readCheckoutMap returns for one name: none (has |->
\* FALSE), the empty record of an expired row, or the row with its age in
\* days. checkoutAgeDays is <<>> for null.
NoRecord ==
  [has |-> FALSE, checkoutUser |-> "", checkoutAgeDays |-> <<>>,
   lastUpdatedBy |-> Null, lastUpdatedAtUtc |-> NullDate]

CheckoutRecord(row, t) ==
  IF ~row.present THEN NoRecord
  ELSE IF expired(row, t)
  THEN [NoRecord EXCEPT !.has = TRUE]
  ELSE [has |-> TRUE, checkoutUser |-> row.checkoutUser,
        checkoutAgeDays |->
          <<Floor(t - DateParse(row.lastUpdatedAtUtc).value, DAY_MS)>>,
        lastUpdatedBy |-> row.lastUpdatedBy,
        lastUpdatedAtUtc |-> row.lastUpdatedAtUtc]

\* readCheckoutMap at instant t: the map, and the table without the expired
\* rows.
readCheckoutMap(table, t) ==
  [result |-> [c \in DOMAIN table |-> CheckoutRecord(table[c], t)],
   table |-> [c \in DOMAIN table |->
                IF table[c].present /\ expired(table[c], t) THEN NoRow
                ELSE table[c]]]

\* The row GET /api/status answers for one status row, c being
\* checkouts.get(s.computerName).
MergedRow(s, c) ==
  [computerName |-> s.computerName,
   ipAddress |-> s.ipAddress,
   alive |-> IF s.alive = "true" THEN "true"
             ELSE IF s.alive = "false" THEN "false" ELSE "unknown",
   errorMessage |-> s.errorMessage,
   loggedInUser |-> s.loggedInUser,
   checkoutUser |-> IF c.has /\ Truthy(c.checkoutUser) THEN c.checkoutUser ELSE "",
   checkoutAgeDays |-> IF c.has THEN c.checkoutAgeDays ELSE <<>>,
   lastUpdatedBy |-> IF c.has THEN c.lastUpdatedBy ELSE Null,
   lastUpdatedAt |-> IF c.has THEN c.lastUpdatedAtUtc ELSE NullDate]

\* statuses.map(...) of GET /api/status.
Merged(statuses, checkouts) ==
  [i \in 1..Len(statuses) |->
     MergedRow(statuses[i], checkouts[statuses[i].computerName])]

auditLog(log, kind, user) == Append(log, [kind |-> kind, user |-> user])

\* The 401 branches calling hardDeny without the negotiate flag.
denyChallenge_NoNegotiate(rq) ==
  [rq EXCEPT !.audit = auditLog(@, "auth_denied", Null),
             !.res = hardDeny(@, 401, FALSE)]

\* The 401 branches handing the failure to the error handler: next(err).
denyChallenge_ErrorHandler(rq) ==
  [rq EXCEPT !.audit = auditLog(@, "auth_denied", Null),
             !.res = [@ EXCEPT !.ended = TRUE, !.status = 500,
                               !.contentType = "text/plain; charset=utf-8",
                               !.body = "Internal Server Error"]]

\* authz's 401 branches: no credential header, handshake error, no identity.
denyChallenge(rq) ==
  [rq EXCEPT !.audit = auditLog(@, "auth_denied", Null),
             !.res = hardDeny(@, 401, TRUE)]

\* The `if (!ok)` branch logging its denial without the user.
denyNotMember_Anonymous(rq) ==
  [rq EXCEPT !.audit = auditLog(@, "auth_denied", Null),
             !.res = hardDeny(@, 403, FALSE)]

\* The `if (!ok)` branch writing the identity to the session before it denies.
denyNotMember_KeepsIdentity(rq) ==
  [rq EXCEPT !.audit = auditLog(@, "auth_denied", rq.id.user),
             !.session = [@ EXCEPT !.auth = rq.id.user],
             !.res = hardDeny(@, 403, FALSE)]

\* authz's `if (!ok)` branch.
denyNotMember(rq) ==
  [rq EXCEPT !.audit = auditLog(@, "auth_denied", rq.id.user),
             !.res = hardDeny(@, 403, FALSE)]

\* The catch branch letting the error reach the 500 error handler.
denyFailClosed_500(rq) ==
  [rq EXCEPT !.audit = auditLog(@, "auth_denied", rq.id.user),
             !.res = [@ EXCEPT !.ended = TRUE, !.status = 500,
                               !.contentType = "text/plain; charset=utf-8",
                               !.body = "Internal Server Error"]]

\* authz's catch branch: a directory call threw.
denyFailClosed(rq) ==
  [rq EXCEPT !.audit = auditLog(@, "auth_denied", rq.id.user),
             !.res = hardDeny(@, 403, FALSE)]

\* The establishment leaving the session without its CSRF token.
EstablishedSession_NoCsrf(id, allowed, t) ==
  [exists |-> TRUE, auth |-> id.user, csrf |-> NoToken,
   allowedGroupDN |-> allowed.groupDN,
   allowedGroupDomain |-> allowed.groupDomainLabel]

\* The four assignments to req.session after isUserInGroup returned true; t is
\* the value of randomToken().
EstablishedSession(id, allowed, t) ==
  [exists |-> TRUE, auth |-> id.user, csrf |-> t,
   allowedGroupDN |-> allowed.groupDN,
   allowedGroupDomain |-> allowed.groupDomainLabel]

\* The end-of-response hook under resave: true: a live session is written
\* back whether or not the request modified it.
SaveOnEnd_Resave(st, rq) ==
  IF rq.session.exists /\ rq.sessionID # NoSid
  THEN [st EXCEPT ![rq.sessionID] = rq.session]
  ELSE st

\* express-session's end-of-response hook (resave: false, saveUninitialized:
\* false): a live session is written to the store only when it was modified.
SaveOnEnd(st, rq) ==
  IF rq.session.exists /\ rq.dirty /\ rq.sessionID # NoSid
  THEN [st EXCEPT ![rq.sessionID] = rq.session]
  ELSE st

\* The response of request r ends with record rq.
EndResponse(r, rq, why) ==
  /\ req' = [req EXCEPT ![r] = [rq EXCEPT !.pc = "done", !.cause = why]]
  /\ store' = SaveOnEnd(store, rq)

\* ------------------------------------------------------------ event loop
\* Node runs one callback at a time, to completion: a request that is between
\* two middleware of one synchronous run holds the event loop, and callbacks of
\* other requests start only when it is free. A finished request holds it until
\* its slot is released, so each response is seen once.
SyncPcs == {"origin", "authz", "csrf", "route", "done"}

LoopFree == \A q \in Req : req[q].pc \notin SyncPcs

\* -------------------------------------------------------------------- Init
Init ==
  /\ proc = "loading"
  /\ allowedGroupPromise = NullPromise
  /\ startupCalls = 0
  /\ gateCalls = 0
  /\ store = [s \in ApiSIDs |-> NoSession]
  /\ nextSid = 1
  /\ req = [r \in Req |-> IdleReq]
  /\ ad = NoCall
  /\ statusCache = EmptyCache
  /\ polls = <<>>
  /\ db = [c \in ComputerNames |-> NoRow]
  /\ now = 0
  /\ env = Null

\* ------------------------------------------------------------------ main()
\* loadConfig() returns or throws; on a config the startup call of
\* resolveAllowedGroupDN is issued.
LoadConfig ==
  /\ proc = "loading"
  /\ \E configOk \in BOOLEAN :
       IF configOk
       THEN proc' = "validating" /\ startupCalls' = Inc(startupCalls)
       ELSE proc' = "configFailed" /\ UNCHANGED startupCalls
  /\ UNCHANGED <<ad, apiVars, allowedGroupPromise, gateCalls, store, nextSid, req>>

\* The startup resolution settles: its value is dropped; a failure is thrown
\* out of main().
StartupSettles ==
  /\ proc = "validating"
  /\ \E up \in BOOLEAN, groups \in SUBSET DNs :
       proc' = IF resolveAllowedGroupDN(up, groups).state = "fulfilled"
               THEN "resolved" ELSE "resolveFailed"
  /\ UNCHANGED <<ad, apiVars, allowedGroupPromise, startupCalls, gateCalls,
                 store, nextSid, req>>

\* main() going on to app.listen although the startup resolution threw.
ReachesListen_FailOpen(p) == p \in {"resolved", "resolveFailed"}

\* main() gets past `await resolveAllowedGroupDN(...)` only when it returned.
ReachesListen(p) == p = "resolved"

\* The rest of main(): domain detection, database, first poll, middleware,
\* then app.listen. Any of the steps before app.listen can throw.
Listen ==
  /\ ReachesListen(proc)
  /\ \E setupOk \in BOOLEAN :
       proc' = IF setupOk THEN "serving" ELSE "setupFailed"
  /\ UNCHANGED <<ad, apiVars, allowedGroupPromise, startupCalls, gateCalls,
                 store, nextSid, req>>

\* main().catch: console.error and process.exit(1).
MainCatch ==
  /\ proc \in {"configFailed", "resolveFailed", "setupFailed"}
  /\ proc' = "exited"
  /\ UNCHANGED <<ad, apiVars, allowedGroupPromise, startupCalls, gateCalls,
                 store, nextSid, req>>

\* ------------------------------------------------------- middleware chain
\* A request arrives in the lowest free slot: the session middleware loads the
\* session its cookie names, or generates a fresh one. hasAuth, the presence of
\* an Authorization header, is read for a fresh session only and drawn for it
\* only. The other fields of the request are drawn no later than the step that
\* first reads them.
Arrive(r) ==
  /\ proc = "serving"
  /\ LoopFree
  /\ req[r].pc = "idle"
  /\ \A q \in Req : q < r => req[q].pc # "idle"
  /\ \E sid \in {NoSid} \cup SIDs, a \in BOOLEAN :
       LET found == sid # NoSid /\ store[sid].exists IN
       /\ found => ~a
       /\ req' = [req EXCEPT ![r] =
                    [IdleReq EXCEPT !.pc = "origin", !.hasAuth = a,
                                    !.sessionID = IF found THEN sid ELSE NoSid,
                                    !.session = IF found THEN store[sid]
                                                ELSE FreshSession]]
  /\ UNCHANGED <<ad, apiVars, proc, allowedGroupPromise, startupCalls, gateCalls,
                 store, nextSid>>

\* Strict same-origin middleware. The request keeps the Origin header and,
\* when the middleware read it, the Host header, until the gate takes over.
OriginCheck(r) ==
  /\ req[r].pc = "origin"
  /\ \E origin \in Origins, host \in Hosts :
       LET hostRead == Truthy(origin) /\ UrlHost(origin) # "throws"
           rq == [req[r] EXCEPT !.origin = origin,
                                !.host = IF hostRead THEN host ELSE Null] IN
       IF OriginPasses(origin, host)
       THEN req' = [req EXCEPT ![r] = [rq EXCEPT !.pc = "authz"]]
            /\ UNCHANGED store
       ELSE EndResponse(r, [rq EXCEPT !.res = hardDeny(@, 403, FALSE)],
                        IF UrlHost(origin) = "throws" THEN "origin_unparseable"
                        ELSE "origin_mismatch")
  /\ UNCHANGED <<ad, apiVars, proc, allowedGroupPromise, startupCalls, gateCalls,
                 nextSid>>

\* authz, up to the call of ssoAuth.
Authz(r) ==
  /\ req[r].pc = "authz"
  /\ LET rq == [req[r] EXCEPT !.origin = Null, !.host = Null]
         step == AuthzEntry(rq.session, rq.hasAuth) IN
     CASE step = "next" ->
            /\ req' = [req EXCEPT ![r] =
                         [rq EXCEPT !.res = ensureCsrfCookie(rq.session, @, env),
                                    !.pc = "json"]]
            /\ UNCHANGED store
       [] step = "challenge" ->
            EndResponse(r, denyChallenge(rq),
                        "no_credential")
       [] OTHER ->
            /\ req' = [req EXCEPT ![r] = [rq EXCEPT !.pc = "sso"]]
            /\ UNCHANGED store
  /\ UNCHANGED <<ad, apiVars, proc, allowedGroupPromise, startupCalls, gateCalls,
                 nextSid>>

\* The callback authz hands to ssoAuth, up to `await getAllowedGroup()`.
SsoCallback(r) ==
  /\ LoopFree
  /\ req[r].pc = "sso"
  /\ \E err \in BOOLEAN, u \in SsoUsers :
       LET rq == req[r]
           id == buildUserLabel(u) IN
       IF err
       THEN /\ EndResponse(r, denyChallenge(rq),
                           "sso_error")
            /\ UNCHANGED <<allowedGroupPromise, gateCalls>>
       ELSE IF id = NoId
       THEN /\ EndResponse(r, denyChallenge(rq),
                           "no_identity")
            /\ UNCHANGED <<allowedGroupPromise, gateCalls>>
       ELSE /\ req' = [req EXCEPT ![r] = [rq EXCEPT !.id = id, !.pc = "awaitGroup"]]
            /\ IF NeedsResolve(allowedGroupPromise)
               THEN /\ allowedGroupPromise' = [NullPromise EXCEPT !.state = "pending"]
                    /\ gateCalls' = Inc(gateCalls)
               ELSE UNCHANGED <<allowedGroupPromise, gateCalls>>
            /\ UNCHANGED store
  /\ UNCHANGED <<ad, apiVars, proc, startupCalls, nextSid>>

\* The directory answers the gate's resolveAllowedGroupDN call.
GateResolveSettles ==
  /\ LoopFree
  /\ allowedGroupPromise.state = "pending"
  /\ \E up \in BOOLEAN, groups \in SUBSET DNs :
       allowedGroupPromise' = resolveAllowedGroupDN(up, groups)
  /\ UNCHANGED <<ad, apiVars, proc, startupCalls, gateCalls, store, nextSid, req>>

\* `await getAllowedGroup()` returns or throws; on a value, isUserInGroup is called.
AwaitGroup(r) ==
  /\ LoopFree
  /\ req[r].pc = "awaitGroup"
  /\ allowedGroupPromise.state \in {"fulfilled", "rejected"}
  /\ LET rq == req[r] IN
     IF allowedGroupPromise.state = "rejected"
     THEN EndResponse(r, denyFailClosed(rq),
                      "resolve_failed")
     ELSE /\ req' = [req EXCEPT ![r] =
                       [rq EXCEPT !.allowed =
                                    [groupDN |-> allowedGroupPromise.groupDN,
                                     groupDomainLabel |->
                                       allowedGroupPromise.groupDomainLabel],
                                  !.pc = "awaitMember"]]
          /\ UNCHANGED store
  /\ UNCHANGED <<ad, apiVars, proc, allowedGroupPromise, startupCalls, gateCalls,
                 nextSid>>

\* `await isUserInGroup(...)` returns or throws: deny, or establish the session.
MemberSettles(r) ==
  /\ LoopFree
  /\ req[r].pc = "awaitMember"
  /\ \E up \in BOOLEAN, matching \in 0..MaxMatch :
     LET ck == isUserInGroup(up, matching, req[r].id.domain,
                             AsText(req[r].id.name), req[r].allowed.groupDN)
         rq == [req[r] EXCEPT !.check = ck] IN
     CASE ck.result = "throws" ->
            /\ EndResponse(r, denyFailClosed(rq),
                           "member_check_failed")
            /\ UNCHANGED nextSid
       [] ck.result = "false" ->
            /\ EndResponse(r, denyNotMember(rq),
                           "not_member")
            /\ UNCHANGED nextSid
       [] OTHER ->
            /\ nextSid <= MaxSess
            /\ \E t \in Tokens :
                 LET s == EstablishedSession(rq.id, rq.allowed, t) IN
                 req' = [req EXCEPT ![r] =
                           [rq EXCEPT !.session = s, !.sessionID = nextSid,
                                      !.dirty = TRUE,
                                      !.res = ensureCsrfCookie(s, @, env),
                                      !.audit = auditLog(@, "auth_success", rq.id.user),
                                      !.pc = "json"]]
            /\ nextSid' = nextSid + 1
            /\ UNCHANGED store
  /\ UNCHANGED <<ad, apiVars, proc, allowedGroupPromise, startupCalls, gateCalls>>

\* express.json(): a body that cannot be parsed goes to the error handler,
\* which answers 500 for the request.
JsonParser(r) ==
  /\ LoopFree
  /\ req[r].pc = "json"
  /\ \E method \in Methods, bodyOk \in BOOLEAN :
       IF bodyOk
       THEN req' = [req EXCEPT ![r] = [@ EXCEPT !.method = method, !.pc = "csrf"]]
            /\ UNCHANGED store
       ELSE EndResponse(r, [req[r] EXCEPT !.method = method, !.res =
                              [@ EXCEPT !.ended = TRUE, !.status = 500,
                                        !.contentType = "text/plain; charset=utf-8",
                                        !.body = "Internal Server Error"]],
                        "parse_error")
  /\ UNCHANGED <<ad, apiVars, proc, allowedGroupPromise, startupCalls, gateCalls,
                 nextSid>>

\* requireCsrf giving the session a new token when it rejects a request.
requireCsrf_RotatesOnReject(r) ==
  /\ req[r].pc = "csrf"
  /\ IF IsSafeMethod(req[r].method)
     THEN req' = [req EXCEPT ![r].pc = "route"] /\ UNCHANGED store
     ELSE \E h \in {NoToken} \cup Tokens, c \in {NoToken} \cup Tokens,
             t \in Tokens :
            LET rq == [req[r] EXCEPT !.header = h, !.cookie = c] IN
            IF CsrfRejects(h, c, rq.session.csrf)
            THEN EndResponse(r, [rq EXCEPT !.session.csrf = t, !.dirty = TRUE,
                                           !.res = hardDeny(@, 403, FALSE)],
                             "csrf")
            ELSE req' = [req EXCEPT ![r] = [rq EXCEPT !.pc = "route"]]
                 /\ UNCHANGED store
  /\ UNCHANGED <<ad, apiVars, proc, allowedGroupPromise, startupCalls, gateCalls,
                 nextSid>>

\* requireCsrf: safe methods pass; the others need header = cookie = session token.
requireCsrf(r) ==
  /\ req[r].pc = "csrf"
  /\ IF IsSafeMethod(req[r].method)
     THEN req' = [req EXCEPT ![r].pc = "route"] /\ UNCHANGED store
     ELSE \E h \in {NoToken} \cup Tokens, c \in {NoToken} \cup Tokens :
            LET rq == [req[r] EXCEPT !.header = h, !.cookie = c] IN
            IF CsrfRejects(h, c, rq.session.csrf)
            THEN EndResponse(r, [rq EXCEPT !.res = hardDeny(@, 403, FALSE)], "csrf")
            ELSE req' = [req EXCEPT ![r] = [rq EXCEPT !.pc = "route"]]
                 /\ UNCHANGED store
  /\ UNCHANGED <<ad, apiVars, proc, allowedGroupPromise, startupCalls, gateCalls,
                 nextSid>>

\* The handler express dispatches a request to, after the middleware chain.
RouteFor(method, path) ==
  IF method = "POST"
  THEN IF path = "/api/logout" THEN "logout" ELSE "notfound"
  ELSE IF path = "/api/session" THEN "session" ELSE "spa"

\* The /api router, the static server and the SPA fallback.
Route(r) ==
  /\ req[r].pc = "route"
  /\ \E path \in Paths :
       LET rq == req[r]
           h == RouteFor(rq.method, path) IN
       CASE h = "logout" ->
              \* req.session.destroy(cb): the session leaves the request and the store.
              /\ req' = [req EXCEPT ![r] = [rq EXCEPT !.session = NoSession,
                                                      !.pc = "logout"]]
              /\ store' = IF rq.sessionID # NoSid
                          THEN [store EXCEPT ![rq.sessionID] = NoSession]
                          ELSE store
         [] h = "session" ->
              EndResponse(r, [rq EXCEPT !.res =
                                [@ EXCEPT !.ended = TRUE,
                                          !.contentType = "application/json; charset=utf-8",
                                          !.body = rq.session.auth]],
                          "handler")
         [] h = "spa" ->
              EndResponse(r, [rq EXCEPT !.res =
                                [@ EXCEPT !.ended = TRUE,
                                          !.contentType = "text/html; charset=UTF-8",
                                          !.body = "index.html"]],
                          "handler")
         [] OTHER ->
              EndResponse(r, [rq EXCEPT !.res =
                                [@ EXCEPT !.ended = TRUE, !.status = 404,
                                          !.contentType = "text/html; charset=utf-8",
                                          !.body = "Cannot POST"]],
                          "handler")
  /\ UNCHANGED <<ad, apiVars, proc, allowedGroupPromise, startupCalls, gateCalls,
                 nextSid>>

\* The callback of req.session.destroy in POST /api/logout.
LogoutCallback(r) ==
  /\ LoopFree
  /\ req[r].pc = "logout"
  /\ EndResponse(r, [req[r] EXCEPT !.res =
                       [@ EXCEPT !.ended = TRUE,
                                 !.contentType = "application/json; charset=utf-8",
                                 !.body = "{ok:true}"]],
                 "handler")
  /\ UNCHANGED <<ad, apiVars, proc, allowedGroupPromise, startupCalls, gateCalls,
                 nextSid>>

\* The client has its response; the slot takes the next request.
Forget(r) ==
  /\ req[r].pc = "done"
  /\ req' = [req EXCEPT ![r] = IdleReq]
  /\ UNCHANGED <<ad, apiVars, proc, allowedGroupPromise, startupCalls, gateCalls,
                 store, nextSid>>

\* A stored session reaches its maxAge.
SessionExpires(s) ==
  /\ LoopFree
  /\ store[s].exists
  /\ store' = [store EXCEPT ![s] = NoSession]
  /\ UNCHANGED <<ad, apiVars, proc, allowedGroupPromise, startupCalls, gateCalls,
                 nextSid, req>>

\* -------------------------------------------------------------------- Spec
Next ==
  \/ LoadConfig
  \/ StartupSettles
  \/ Listen
  \/ MainCatch
  \/ GateResolveSettles
  \/ \E r \in Req : Arrive(r)
  \/ \E r \in Req : OriginCheck(r)
  \/ \E r \in Req : Authz(r)
  \/ \E r \in Req : SsoCallback(r)
  \/ \E r \in Req : AwaitGroup(r)
  \/ \E r \in Req : MemberSettles(r)
  \/ \E r \in Req : JsonParser(r)
  \/ \E r \in Req : requireCsrf(r)
  \/ \E r \in Req : Route(r)
  \/ \E r \in Req : LogoutCallback(r)
  \/ \E r \in Req : Forget(r)
  \/ \E s \in SIDs : SessionExpires(s)

\* The process as it runs by default: DLT_COOKIE_SECURE is not set.
Spec == Init /\ [][Next]_vars

\* The same process with DLT_COOKIE_SECURE set, to 'true' or to 'false'.
InitCookie ==
  /\ proc = "loading"
  /\ allowedGroupPromise = NullPromise
  /\ startupCalls = 0
  /\ gateCalls = 0
  /\ store = [s \in ApiSIDs |-> NoSession]
  /\ nextSid = 1
  /\ req = [r \in Req |-> IdleReq]
  /\ ad = NoCall
  /\ statusCache = EmptyCache
  /\ polls = <<>>
  /\ db = [c \in ComputerNames |-> NoRow]
  /\ now = 0
  /\ env \in EnvValues

SpecCookie == InitCookie /\ [][Next]_vars

\* ------------------------------------------------ functions by themselves
\* The functions of the directory client, and requireCsrf, keep no state
\* between calls: each is called on its own, one call at a time.
\* isUserInGroup called on any account name of any domain, against any
\* directory answer.
CallIsUserInGroup ==
  /\ ad = NoCall
  /\ \E up \in BOOLEAN, matching \in 0..MaxMatch, userName \in Texts,
        userDomain \in UserDomains :
       ad' = [NoCall EXCEPT !.fn = "isUserInGroup", !.up = up,
                            !.matching = matching, !.userName = userName,
                            !.domainLabel = userDomain,
                            !.out = isUserInGroup(up, matching, userDomain,
                                                  userName, DN1)]
  /\ UNCHANGED <<apiVars, proc, allowedGroupPromise, startupCalls, gateCalls,
                 store, nextSid, req>>

\* resolveAllowedGroupDN called against any directory answer.
CallResolveAllowedGroupDN ==
  /\ ad = NoCall
  /\ \E up \in BOOLEAN, groups \in SUBSET (DNs \cup {DN3}) :
       ad' = [NoCall EXCEPT !.fn = "resolveAllowedGroupDN", !.up = up,
                            !.groups = groups,
                            !.out = resolveAllowedGroupDN(up, groups)]
  /\ UNCHANGED <<apiVars, proc, allowedGroupPromise, startupCalls, gateCalls,
                 store, nextSid, req>>

\* escapeLdapFilter called on any text.
CallEscapeLdapFilter ==
  /\ ad = NoCall
  /\ \E v \in EscTexts :
       ad' = [NoCall EXCEPT !.fn = "escapeLdapFilter", !.input = v,
                            !.out = escapeLdapFilter(v)]
  /\ UNCHANGED <<apiVars, proc, allowedGroupPromise, startupCalls, gateCalls,
                 store, nextSid, req>>

\* normalizeUserLabel called with and without a domain label, an account name
\* and a principal name.
CallNormalizeUserLabel ==
  /\ ad = NoCall
  /\ \E domainLabel \in {Null, "", ConfigDomain}, sam \in {"", "jdoe"},
        upn \in {"", "jdoe@corp.local"} :
       ad' = [NoCall EXCEPT !.fn = "normalizeUserLabel",
                            !.domainLabel = domainLabel,
                            !.entry = [sam |-> sam, upn |-> upn],
                            !.out = normalizeUserLabel(domainLabel, sam, upn)]
  /\ UNCHANGED <<apiVars, proc, allowedGroupPromise, startupCalls, gateCalls,
                 store, nextSid, req>>

\* resolveAllowedGroupDN choosing its filter, for any configured group spec.
CallGroupFilter ==
  /\ ad = NoCall
  /\ \E allowedAdGroup \in GroupSpecs :
       ad' = [NoCall EXCEPT !.fn = "GroupFilter", !.input = allowedAdGroup,
                            !.out = GroupFilter(allowedAdGroup)]
  /\ UNCHANGED <<apiVars, proc, allowedGroupPromise, startupCalls, gateCalls,
                 store, nextSid, req>>

\* listAllowedGroupMembers called for a group with or without a domain label,
\* against any directory answer.
CallListAllowedGroupMembers ==
  /\ ad = NoCall
  /\ \E up \in BOOLEAN, persons \in PersonLists,
        domainLabel \in {Null, ConfigDomain} :
       ad' = [NoCall EXCEPT !.fn = "listAllowedGroupMembers", !.up = up,
                            !.input = persons, !.domainLabel = domainLabel,
                            !.out = listAllowedGroupMembers(up, persons, domainLabel)]
  /\ UNCHANGED <<apiVars, proc, allowedGroupPromise, startupCalls, gateCalls,
                 store, nextSid, req>>

\* resolveAndValidateCheckoutUser called on any input, for a group with or
\* without a domain label, against any directory answer; `entry` is the first
\* entry of the result.
CallResolveAndValidateCheckoutUser ==
  /\ ad = NoCall
  /\ \E up \in BOOLEAN, matching \in 0..MaxMatch, entry \in DirEntries,
        input \in Texts \cup LongTexts, domainLabel \in {Null, ConfigDomain} :
       ad' = [NoCall EXCEPT !.fn = "resolveAndValidateCheckoutUser", !.up = up,
                            !.matching = matching, !.entry = entry,
                            !.input = input, !.domainLabel = domainLabel,
                            !.out = resolveAndValidateCheckoutUser(
                                      up, matching, entry, input, DN1, domainLabel)]
  /\ UNCHANGED <<apiVars, proc, allowedGroupPromise, startupCalls, gateCalls,
                 store, nextSid, req>>

\* requireCsrf called for any method, header, cookie and session token.
CallRequireCsrf ==
  /\ ad = NoCall
  /\ \E method \in AnyMethods, header \in {NoToken} \cup Tokens,
        cookie \in {NoToken} \cup Tokens, expected \in {NoToken} \cup Tokens :
       ad' = [NoCall EXCEPT !.fn = "requireCsrf", !.method = method,
                            !.header = header, !.cookie = cookie,
                            !.expected = expected,
                            !.out = CsrfOutcome(method, header, cookie, expected)]
  /\ UNCHANGED <<apiVars, proc, allowedGroupPromise, startupCalls, gateCalls,
                 store, nextSid, req>>

\* The caller has the result of the call; the next call can be made.
Return ==
  /\ ad # NoCall
  /\ ad' = NoCall
  /\ UNCHANGED <<apiVars, proc, allowedGroupPromise, startupCalls, gateCalls,
                 store, nextSid, req>>

NextAd ==
  \/ CallIsUserInGroup
  \/ CallResolveAllowedGroupDN
  \/ CallResolveAndValidateCheckoutUser
  \/ CallEscapeLdapFilter
  \/ CallNormalizeUserLabel
  \/ CallGroupFilter
  \/ CallListAllowedGroupMembers
  \/ CallRequireCsrf
  \/ Return

SpecAd == Init /\ [][NextAd]_vars

\* ------------------------------------------------- the /api handlers
\* The handlers run for requests that came through the whole middleware chain
\* on an authorized session. This part starts from a serving process with
\* established sessions and puts each request at its handler.
\* The account the session of row s was established for.
ApiUser(s) == IF s = 1 THEN "jdoe" ELSE "asmith"

\* The session table of that process: the first row is jdoe's session, the
\* last one asmith's, the rows between them are not in use.
ApiStore ==
  [s \in ApiSIDs |->
     IF s \in {1, MaxSess + 1}
     THEN EstablishedSession(
            buildUserLabel([domain |-> "CORP", name |-> ApiUser(s)]),
            [groupDN |-> DN1, groupDomainLabel |-> ConfigDomain],
            TokenText(1))
     ELSE NoSession]

InitApi ==
  /\ proc = "serving"
  /\ allowedGroupPromise =
       [state |-> "fulfilled", groupDN |-> DN1, groupDomainLabel |-> ConfigDomain]
  /\ startupCalls = 1
  /\ gateCalls = 1
  /\ store = ApiStore
  /\ nextSid = MaxSess + 2
  /\ req = [r \in Req |-> IdleReq]
  /\ ad = NoCall
  /\ statusCache = EmptyCache
  /\ polls = <<>>
  /\ db = [c \in ComputerNames |-> NoRow]
  /\ now = 0
  /\ env = Null

\* The request as the gate, the body parser and requireCsrf hand it on.
AtHandler(sid, method) ==
  [IdleReq EXCEPT !.method = method, !.sessionID = sid, !.session = store[sid],
                  !.res = ensureCsrfCookie(store[sid], @, env)]

\* res.json(value).
json(res, value) ==
  [res EXCEPT !.ended = TRUE,
              !.contentType = "application/json; charset=utf-8",
              !.body = value]

\* The rejection telling the caller what was wrong with the user.
invalidCheckout_Diagnostic(res) ==
  [res EXCEPT !.ended = TRUE, !.status = 400,
              !.contentType = "text/plain; charset=utf-8",
              !.body = "User is not a member of the allowed group"]

\* res.status(400).type('text/plain').send('Invalid checkout user').
invalidCheckout(res) ==
  [res EXCEPT !.ended = TRUE, !.status = 400,
              !.contentType = "text/plain; charset=utf-8",
              !.body = "Invalid checkout user"]

\* The promise of an async route handler rejects. The router does not look at
\* that promise: nothing ends the response, and the rejection is unhandled,
\* which ends the process or not, as the runtime is set up. No code reads the
\* request again: of an unanswered request only its slot is kept.
UnhandledRejection(r) ==
  \E exits \in BOOLEAN :
    IF exits
    THEN proc' = "crashed" /\ UNCHANGED req
    ELSE proc' = proc
         /\ req' = [req EXCEPT ![r] = [IdleReq EXCEPT !.pc = "unanswered"]]

\* GET /api/groupMembers, up to `await listAllowedGroupMembers(...)`.
GetGroupMembers(r) ==
  /\ proc = "serving"
  /\ LoopFree
  /\ req[r].pc = "idle"
  /\ \A q \in Req : q < r => req[q].pc # "idle"
  /\ \E sid \in ApiSIDs :
       /\ Truthy(store[sid].auth)
       /\ LET rq == AtHandler(sid, "GET")
              cached == getGroupMembers(statusCache, now) IN
          IF cached.hit
          THEN EndResponse(r, [rq EXCEPT !.res = json(@, cached.members)],
                           "handler")
          ELSE /\ req' = [req EXCEPT ![r] = [rq EXCEPT !.pc = "listMembers"]]
               /\ UNCHANGED store
  /\ UNCHANGED <<ad, apiVars, proc, allowedGroupPromise, startupCalls,
                 gateCalls, nextSid>>

\* `await listAllowedGroupMembers(...)` returns or throws.
ListMembersSettles(r) ==
  /\ proc = "serving"
  /\ LoopFree
  /\ req[r].pc = "listMembers"
  /\ \E up \in BOOLEAN, persons \in MemberAnswers :
       LET out == listAllowedGroupMembers(up, persons,
                                          req[r].session.allowedGroupDomain) IN
       IF out.threw
       THEN /\ UnhandledRejection(r)
            /\ UNCHANGED <<store, statusCache>>
       ELSE /\ statusCache' = setGroupMembers(statusCache, out.members, now)
            /\ EndResponse(r, [req[r] EXCEPT !.res = json(@, out.members)],
                           "handler")
            /\ UNCHANGED proc
  /\ UNCHANGED <<ad, db, now, env, polls, allowedGroupPromise, startupCalls,
                 gateCalls, nextSid>>

\* Time passes between two callbacks: the clock advances by `step`
\* milliseconds, at most MaxClock times for each step below the next larger
\* one, `above`.
Tick(step, above) ==
  /\ proc = "serving"
  /\ LoopFree
  /\ (now % above) \div step < MaxClock
  /\ now' = now + step
  /\ UNCHANGED <<ad, statusCache, db, env, polls, proc, allowedGroupPromise,
                 startupCalls, gateCalls, store, nextSid, req>>

\* POST /api/logout at its handler: req.session.destroy(cb) takes the session
\* from the request and from the store.
PostLogout(r) ==
  /\ proc = "serving"
  /\ LoopFree
  /\ req[r].pc = "idle"
  /\ \A q \in Req : q < r => req[q].pc # "idle"
  /\ \E sid \in ApiSIDs :
       /\ Truthy(store[sid].auth)
       /\ req' = [req EXCEPT ![r] =
                    [AtHandler(sid, "POST") EXCEPT !.session = NoSession,
                                                   !.pc = "logout"]]
       /\ store' = [store EXCEPT ![sid] = NoSession]
  /\ UNCHANGED <<ad, apiVars, proc, allowedGroupPromise, startupCalls,
                 gateCalls, nextSid>>

\* The checkoutUser values a checkout request can carry: empty, blank, an
\* account name, a prefixed account name, one with a blank inside, and one of
\* 257 letters.
CheckoutUsers ==
  { <<>>, <<" ">>, <<"j">>, <<"j", "\\", "j">>, <<"j", " ", "j">>, Letters(257) }

\* checkoutSchema on the names of ComputerNames and the texts of
\* CheckoutUsers: the empty name fails min(1), a long text fails max(256).
SchemaAccepts(body) ==
  body.computerName # "" /\ Len(body.checkoutUser) <= 256

\* config.computers.some(c => c.computerName.toLowerCase() === ...).
InInventory(computerName) ==
  \E c \in Computers : toLowerCase(c) = toLowerCase(computerName)

\* POST /api/checkout, up to `await resolveAndValidateCheckoutUser(...)`.
PostCheckout(r) ==
  /\ proc = "serving"
  /\ LoopFree
  /\ req[r].pc = "idle"
  /\ \A q \in Req : q < r => req[q].pc # "idle"
  /\ \E sid \in SIDs, computerName \in ComputerNames,
        checkoutUser \in CheckoutUsers :
       /\ Truthy(store[sid].auth)
       /\ LET rq == [AtHandler(sid, "POST") EXCEPT
                       !.body = [computerName |-> computerName,
                                 checkoutUser |-> checkoutUser]] IN
          IF ~SchemaAccepts(rq.body)
          THEN EndResponse(r, [rq EXCEPT !.res = invalidCheckout(@)],
                           "checkout_schema")
          ELSE IF ~InInventory(computerName)
          THEN EndResponse(r, [rq EXCEPT !.res = invalidCheckout(@)],
                           "checkout_inventory")
          ELSE /\ req' = [req EXCEPT ![r] = [rq EXCEPT !.pc = "validateUser"]]
               /\ UNCHANGED store
  /\ UNCHANGED <<ad, apiVars, proc, allowedGroupPromise, startupCalls,
                 gateCalls, nextSid>>

\* `await resolveAndValidateCheckoutUser(...)` returns or throws; on a label
\* the row is written, the write is logged and the row is returned.
ValidateSettles(r) ==
  /\ proc = "serving"
  /\ LoopFree
  /\ req[r].pc = "validateUser"
  /\ \E up \in BOOLEAN, matching \in 0..MaxMatch, entry \in DirEntries :
       LET validated ==
             resolveAndValidateCheckoutUser(
               up, matching, entry, req[r].body.checkoutUser,
               req[r].session.allowedGroupDN, req[r].session.allowedGroupDomain)
           rq == [req[r] EXCEPT !.check =
                    [called |-> validated.called, filter |-> validated.filter,
                     result |-> validated.kind]] IN
       CASE validated.kind = "throws" ->
              /\ UnhandledRejection(r)
              /\ UNCHANGED <<store, db>>
         [] validated.kind = "null" ->
              /\ EndResponse(r, [rq EXCEPT !.res = invalidCheckout(@)],
                             "checkout_user")
              /\ UNCHANGED <<proc, db>>
         [] OTHER ->
              /\ db' = upsertCheckout(db, rq.body.computerName,
                                      validated.normalized, rq.session.auth, now)
              /\ EndResponse(r,
                   [rq EXCEPT !.audit = auditLog(@, "checkout_write", rq.session.auth),
                              !.res = json(@, validated.normalized)],
                   "handler")
              /\ UNCHANGED proc
  /\ UNCHANGED <<ad, statusCache, now, env, polls, allowedGroupPromise, startupCalls,
                 gateCalls, nextSid>>

\* The two handlers share no state: the member list and the checkout table
\* are each touched by one of them, so each is run by itself.
NextMembers ==
  \/ Tick(1, FIVE_MINUTES)
  \/ Tick(FIVE_MINUTES, DAY_MS)
  \/ \E r \in Req : GetGroupMembers(r)
  \/ \E r \in Req : ListMembersSettles(r)
  \/ \E r \in Req : PostLogout(r)
  \/ \E r \in Req : LogoutCallback(r)
  \/ \E r \in Req : Forget(r)
  \/ \E s \in ApiSIDs : SessionExpires(s)

SpecMembers == InitApi /\ [][NextMembers]_vars

NextCheckout ==
  \/ \E r \in Req : PostCheckout(r)
  \/ \E r \in Req : ValidateSettles(r)
  \/ \E r \in Req : Forget(r)

SpecCheckout == InitApi /\ [][NextCheckout]_vars

\* ------------------------------------------------- GET /api/status, poller
\* The rows an earlier run of the process can have left for a name: none, a
\* row stamped at the start of this run, a millisecond or a millisecond less
\* than a day before it, and a row whose time stamp is not a date.
InitialRows ==
  {NoRow} \cup
  { [present |-> TRUE, checkoutUser |-> "CORP\\asmith",
     lastUpdatedBy |-> "CORP\\jdoe", lastUpdatedAtUtc |-> at] :
      at \in {toISOString(0), toISOString(0 - 1), toISOString(1 - DAY_MS),
              NotADate} }

InitialTables ==
  { [c \in ComputerNames |->
       IF c = "PC1" THEN a ELSE IF c = "pc1" THEN b ELSE NoRow] :
      a \in InitialRows, b \in {NoRow, CHOOSE x \in InitialRows : x.present /\ x.lastUpdatedAtUtc = toISOString(0)} }

\* The process as it serves /api: as InitApi, with the statuses `await poll()`
\* left before `listen` (none when that poll failed) and the table as found.
InitStatus ==
  /\ proc = "serving"
  /\ allowedGroupPromise =
       [state |-> "fulfilled", groupDN |-> DN1, groupDomainLabel |-> ConfigDomain]
  /\ startupCalls = 1
  /\ gateCalls = 1
  /\ store = ApiStore
  /\ nextSid = MaxSess + 2
  /\ req = [r \in Req |-> IdleReq]
  /\ ad = NoCall
  /\ \E first \in PollResults \cup {<<>>} :
       statusCache = [EmptyCache EXCEPT !.statuses = first]
  /\ polls = <<>>
  /\ db = [c \in ComputerNames |-> NoRow]
  /\ now = 0
  /\ env = Null

\* The same, with the table as an earlier run left it.
InitExpiry ==
  /\ proc = "serving"
  /\ allowedGroupPromise =
       [state |-> "fulfilled", groupDN |-> DN1, groupDomainLabel |-> ConfigDomain]
  /\ startupCalls = 1
  /\ gateCalls = 1
  /\ store = ApiStore
  /\ nextSid = MaxSess + 2
  /\ req = [r \in Req |-> IdleReq]
  /\ ad = NoCall
  /\ \E first \in PollResults :
       statusCache = [EmptyCache EXCEPT !.statuses = first]
  /\ polls = <<>>
  /\ db \in InitialTables
  /\ now = 0
  /\ env = Null

\* The interval timer calls poll(): pollAllComputers starts.
PollStarts ==
  /\ proc = "serving"
  /\ LoopFree
  /\ Len(polls) < MaxPolls
  /\ polls' = Append(polls, [state |-> "running", result |-> <<>>])
  /\ UNCHANGED <<ad, statusCache, db, now, env, proc, allowedGroupPromise,
                 startupCalls, gateCalls, store, nextSid, req>>

\* `await pollAllComputers(config)` of call p returns, and setStatuses stores
\* what it returned, or throws, and the catch block does nothing.
PollSettles(p) ==
  /\ proc = "serving"
  /\ LoopFree
  /\ p \in 1..Len(polls)
  /\ polls[p].state = "running"
  /\ \E throws \in BOOLEAN, statuses \in PollResults :
       IF throws
       THEN /\ polls' = [polls EXCEPT ![p].state = "failed"]
            /\ UNCHANGED statusCache
       ELSE /\ polls' = [polls EXCEPT ![p] = [state |-> "set", result |-> statuses]]
            /\ statusCache' = [statusCache EXCEPT !.statuses = statuses]
  /\ UNCHANGED <<ad, db, now, env, proc, allowedGroupPromise, startupCalls,
                 gateCalls, store, nextSid, req>>

\* GET /api/status: the handler has no await.
GetStatus(r) ==
  /\ proc = "serving"
  /\ LoopFree
  /\ req[r].pc = "idle"
  /\ \A q \in Req : q < r => req[q].pc # "idle"
  /\ \E sid \in SIDs :
       /\ Truthy(store[sid].auth)
       /\ LET statuses == statusCache.statuses
              checkouts == readCheckoutMap(db, now) IN
          /\ db' = checkouts.table
          /\ EndResponse(r,
               [AtHandler(sid, "GET") EXCEPT
                  !.res = json(@, Merged(statuses, checkouts.result))],
               "handler")
  /\ UNCHANGED <<ad, statusCache, now, env, polls, proc, allowedGroupPromise,
                 startupCalls, gateCalls, nextSid>>

\* The checkout handler and the status handler, which reads what it wrote.
NextStatus ==
  \/ \E r \in Req : GetStatus(r)
  \/ \E r \in Req : PostCheckout(r)
  \/ \E r \in Req : ValidateSettles(r)
  \/ \E r \in Req : Forget(r)

SpecStatus == InitStatus /\ [][NextStatus]_vars

\* The poller and the status handler, which reads what it stored.
NextPoll ==
  \/ PollStarts
  \/ \E p \in 1..MaxPolls : PollSettles(p)
  \/ \E r \in Req : GetStatus(r)
  \/ \E r \in Req : Forget(r)

SpecPoll == InitStatus /\ [][NextPoll]_vars

\* The status handler as the rows of the table age.
NextExpiry ==
  \/ Tick(1, DAY_MS)
  \/ Tick(DAY_MS, SEVEN_DAYS_MS)
  \/ Tick(SEVEN_DAYS_MS, 3 * SEVEN_DAYS_MS)
  \/ \E r \in Req : GetStatus(r)
  \/ \E r \in Req : Forget(r)

SpecExpiry == InitExpiry /\ [][NextExpiry]_vars

\* ================================================================ claims
Done(r) == req[r].pc = "done"

\* The branches that end a request with hardDeny.
DenialCauses ==
  {"origin_mismatch", "origin_unparseable", "no_credential", "sso_error",
   "no_identity", "not_member", "member_check_failed", "resolve_failed", "csrf"}

Denied(r) == Done(r) /\ req[r].cause \in DenialCauses

PassedOriginCheck(r) ==
  req[r].cause \notin {"origin_mismatch", "origin_unparseable"}

\* The request's session was not authorized when it reached the gate.
Unauthorized(r) == req[r].session.exists /\ ~Truthy(req[r].session.auth)

\* C1: a downstream handler (body parser, CSRF check, any route) runs for a
\* request only while the request's session holds an authorized identity.
C1_GateIsChokepoint ==
  \A r \in Req :
    req[r].pc \in {"json", "csrf", "route"} => Truthy(req[r].session.auth)

C1_Witness ==
  \E r \in Req :
    req[r].pc = "route" /\ req[r].dirty /\ Truthy(req[r].session.auth)

ExpectedRefusal ==
  [ended |-> TRUE, status |-> 403, contentType |-> "text/plain; charset=utf-8",
   cacheControl |-> "no-store", pragma |-> "no-cache", wwwAuthenticate |-> "",
   setXsrf |-> NoCookie, body |-> "Access Denied"]

\* C3: every request whose handshake produced an identity and that was not
\* authorized gets one and the same response, 403 'Access Denied', whether the
\* membership check returned false, threw, or the group resolution threw.
C3_RefusalIdentical ==
  \A r \in Req :
    (Done(r) /\ req[r].id # NoId /\ ~req[r].dirty) =>
      /\ req[r].cause \in {"not_member", "member_check_failed", "resolve_failed"}
      /\ req[r].res = ExpectedRefusal

C3_Witness ==
  \E r \in Req :
    /\ Done(r) /\ req[r].cause = "member_check_failed"
    /\ req[r].id.user = "CORP\\jdoe"

\* C4: every denial response, on every denial path, has the body 'Access Denied'.
C4_DenialBody ==
  \A r \in Req : Denied(r) => req[r].res.body = "Access Denied"

C4_Witness ==
  \E r \in Req : Denied(r) /\ req[r].cause = "csrf" /\ req[r].res.setXsrf # NoCookie

\* C5: a denial carries WWW-Authenticate: Negotiate exactly when its status is
\* 401, and every denial is a 401 or a 403.
C5_ChallengeIff401 ==
  \A r \in Req :
    Denied(r) =>
      /\ req[r].res.status \in {401, 403}
      /\ (req[r].res.wwwAuthenticate = "Negotiate") <=> (req[r].res.status = 401)
      /\ req[r].res.wwwAuthenticate \in {"", "Negotiate"}

C5_Witness ==
  \E r \in Req :
    /\ Denied(r) /\ req[r].cause = "no_identity"
    /\ req[r].res.status = 401 /\ req[r].res.wwwAuthenticate = "Negotiate"

\* C6 as stated: every denial has Content-Type exactly 'text/plain' and
\* Cache-Control exactly 'no-store'.
C6_Original ==
  \A r \in Req :
    Denied(r) =>
      /\ req[r].res.contentType = "text/plain"
      /\ req[r].res.cacheControl = "no-store"

\* C6 amended: every denial has Content-Type exactly 'text/plain; charset=utf-8'
\* and Cache-Control exactly 'no-store'.
C6_DenialHeaders ==
  \A r \in Req :
    Denied(r) =>
      /\ req[r].res.contentType = "text/plain; charset=utf-8"
      /\ req[r].res.cacheControl = "no-store"

C6_Witness ==
  \E r \in Req : Denied(r) /\ req[r].cause = "origin_unparseable"

\* Header, cookie and session token are all present and equal.
TokensMatch(r) ==
  /\ req[r].header # NoToken
  /\ req[r].cookie # NoToken
  /\ req[r].session.csrf # NoToken
  /\ req[r].header = req[r].cookie
  /\ req[r].header = req[r].session.csrf

StateChanging(r) == req[r].method # Null /\ ~IsSafeMethod(req[r].method)

\* A request that got past the gate and was answered without reaching a route.
StoppedAfterGate(r) == Done(r) /\ req[r].cause \in {"parse_error", "csrf"}

\* C7 as stated: a state-changing request that passed the gate reaches its
\* handler only with matching tokens, and in every other case is answered 403.
C7_Original ==
  \A r \in Req :
    /\ (req[r].pc = "route" /\ StateChanging(r)) => TokensMatch(r)
    /\ (StoppedAfterGate(r) /\ StateChanging(r)) =>
         (~TokensMatch(r) /\ req[r].res.status = 403)

\* C7 amended: a state-changing request that passed the gate and the JSON body
\* parser is handed to its handler if and only if header, cookie and session
\* token are all present and equal, and is otherwise answered 403 without the
\* handler running; one whose body the parser rejects is answered 500 before
\* requireCsrf runs, and no handler runs either.
C7_CsrfDoubleSubmit ==
  \A r \in Req :
    /\ (req[r].pc = "route" /\ StateChanging(r)) => TokensMatch(r)
    /\ (Done(r) /\ req[r].cause = "csrf") =>
         (StateChanging(r) /\ ~TokensMatch(r) /\ req[r].res.status = 403)
    /\ (Done(r) /\ req[r].cause = "parse_error") => req[r].res.status = 500

C7_Witness ==
  \E r \in Req :
    /\ req[r].pc = "route" /\ StateChanging(r) /\ TokensMatch(r) /\ ~req[r].dirty

\* What a caller of getAllowedGroup saw when its await settled.
Observed(r) == req[r].allowed # NoAllowed \/ req[r].cause = "resolve_failed"

Observation(r) ==
  [failed |-> req[r].cause = "resolve_failed", value |-> req[r].allowed]

\* C8: while callers wait for the first resolution the gate has issued exactly
\* one resolveAllowedGroupDN call, and all callers observe the same value or
\* the same failure.
C8_SingleFlight ==
  /\ \A r \in Req :
       (req[r].pc = "awaitGroup" \/ Observed(r)) => gateCalls = 1
  /\ \A r1, r2 \in Req :
       (Observed(r1) /\ Observed(r2)) => Observation(r1) = Observation(r2)

C8_Witness ==
  \E r1, r2 \in Req :
    /\ r1 # r2
    /\ req[r1].pc = "awaitGroup" /\ req[r2].pc = "awaitGroup"
    /\ allowedGroupPromise.state = "pending"
    /\ gateCalls = 1

\* C9: a failed group resolution is not cached: a caller of getAllowedGroup
\* that finds a failed resolution issues a new resolveAllowedGroupDN call.
C9_FailureNotCached ==
  [][\A r \in Req :
       (/\ req[r].pc = "sso"
        /\ req'[r].pc = "awaitGroup"
        /\ allowedGroupPromise.state = "rejected")
       => (gateCalls' = gateCalls + 1 /\ allowedGroupPromise'.state = "pending")]_vars

\* C10 as stated: once any group resolution call has succeeded, the startup
\* validation included, no later resolveAllowedGroupDN call is issued.
C10_Original ==
  [][proc = "serving" => (gateCalls' = gateCalls /\ startupCalls' = startupCalls)]_vars

\* C10 amended: once the resolution call issued by the gate has succeeded, no
\* later resolveAllowedGroupDN call is issued, the cached value never changes,
\* and every caller and every session it establishes gets that value.
C10_GateResolvesOnce ==
  /\ [][allowedGroupPromise.state = "fulfilled" =>
          /\ allowedGroupPromise' = allowedGroupPromise
          /\ gateCalls' = gateCalls
          /\ startupCalls' = startupCalls]_vars
  /\ [](\A r \in Req :
          /\ req[r].allowed # NoAllowed =>
               /\ allowedGroupPromise.state = "fulfilled"
               /\ req[r].allowed.groupDN = allowedGroupPromise.groupDN
          /\ (req[r].dirty /\ req[r].session.exists) =>
               req[r].session.allowedGroupDN = allowedGroupPromise.groupDN)

C10_Witness ==
  /\ allowedGroupPromise.state = "fulfilled"
  /\ startupCalls = 1 /\ gateCalls = 1
  /\ \E r1, r2 \in Req :
       /\ r1 # r2
       /\ req[r1].pc = "json" /\ req[r1].dirty
       /\ req[r2].pc = "awaitMember"
       /\ req[r2].allowed.groupDN = req[r1].session.allowedGroupDN

\* The sessions a request can see: the stored ones and each request's own copy.
SessionsInView ==
  {store[s] : s \in SIDs} \cup {req[r].session : r \in Req}

\* C11: in every session, stored or held by a request in flight, auth is
\* present exactly when a csrf token is present, and auth present implies a
\* non-empty allowedGroupDN; no request sees a session with only some of
\* auth, csrf and allowedGroupDN set.
C11_SessionFieldsAtomic ==
  \A s \in SessionsInView :
    /\ Truthy(s.auth) <=> s.csrf # NoToken
    /\ Truthy(s.auth) => Truthy(s.allowedGroupDN)
    /\ Truthy(s.allowedGroupDN) => Truthy(s.auth)
    /\ ~s.exists => s = NoSession

\* A request is in flight on a stored, authorized session while another one
\* has just destroyed its own copy of a session in POST /api/logout.
C11_Witness ==
  \E r1, r2 \in Req :
    /\ r1 # r2
    /\ req[r1].pc = "logout" /\ req[r1].session = NoSession
    /\ req[r2].pc = "json" /\ Truthy(req[r2].session.auth)
    /\ req[r2].session.csrf # NoToken

\* The ways the gate refuses a request.
GateDenialCauses ==
  {"no_credential", "sso_error", "no_identity", "not_member",
   "member_check_failed", "resolve_failed"}

\* Request r established its session: the handshake named an identity and
\* isUserInGroup, asked about that identity and the resolved group, said true.
EstablishedByMembership(r) ==
  /\ req[r].id # NoId
  /\ allowedGroupPromise.state = "fulfilled"
  /\ req[r].allowed.groupDN = allowedGroupPromise.groupDN
  /\ req[r].check.called
  /\ req[r].check.result = "true"
  /\ req[r].check.filter =
       MemberFilter(AsText(req[r].id.name), <<allowedGroupPromise.groupDN>>)

\* C12: a session gets an authorized identity only in the step in which
\* isUserInGroup returned true for the identity of the handshake and the
\* resolved group DN, and it gets that identity; a request the gate refuses
\* (handshake failed, isUserInGroup false, a directory call threw) leaves
\* auth, csrf, allowedGroupDN and allowedGroupDomain unset, and nothing of it
\* is stored.
C12_AuthOnlyByMembership ==
  /\ [](\A r \in Req :
          /\ req[r].dirty => EstablishedByMembership(r)
          /\ (req[r].dirty /\ req[r].session.exists) =>
               /\ req[r].session.auth = req[r].id.user
               /\ req[r].session.allowedGroupDN = req[r].allowed.groupDN
          /\ (Done(r) /\ req[r].cause \in GateDenialCauses) =>
               /\ req[r].session = FreshSession
               /\ ~req[r].dirty
               /\ req[r].sessionID = NoSid)
  /\ [][/\ \A r \in Req :
            (~Truthy(req[r].session.auth) /\ Truthy(req'[r].session.auth)) =>
              \/ req[r].pc = "idle" /\ ~req'[r].dirty
              \/ /\ req[r].pc = "awaitMember"
                 /\ req'[r].dirty
                 /\ req'[r].check.result = "true"
        /\ \A s \in SIDs :
            (~Truthy(store[s].auth) /\ Truthy(store'[s].auth)) =>
              \E r \in Req :
                /\ req[r].dirty /\ req[r].sessionID = s
                /\ store'[s] = req'[r].session]_vars

\* A session just established for the account the handshake named.
C12_Witness ==
  \E r \in Req :
    /\ req[r].pc = "json" /\ req[r].dirty
    /\ req[r].check.result = "true"
    /\ req[r].check.filter.sAMAccountName = <<"jdoe">>
    /\ req[r].session.auth = "CORP\\jdoe"

\* The request came with a session that was already authorized.
CameAuthorized(r) == Truthy(req[r].session.auth) /\ ~req[r].dirty

\* C13: for a request whose session already holds an authorized identity the
\* gate goes on to the next handler in its first step, leaving the session, the
\* cached group and the count of resolution calls as they are; such a request
\* never has a handshake identity, a resolved group or a membership check of its
\* own; and a stored authorized session stays as it is until it is destroyed or
\* expires, whatever the directory says about its user meanwhile.
C13_AuthorizedSkipsChecks ==
  /\ [][\A r \in Req :
          (req[r].pc = "authz" /\ Truthy(req[r].session.auth)
             /\ req'[r] # req[r]) =>
            /\ req'[r].pc = "json"
            /\ req'[r].session = req[r].session
            /\ allowedGroupPromise' = allowedGroupPromise
            /\ gateCalls' = gateCalls]_vars
  /\ [](\A r \in Req :
          CameAuthorized(r) =>
            /\ req[r].pc \notin {"sso", "awaitGroup", "awaitMember"}
            /\ req[r].id = NoId
            /\ req[r].allowed = NoAllowed
            /\ req[r].check = NoCheck
            /\ req[r].cause \notin GateDenialCauses)
  /\ [][\A s \in SIDs :
          Truthy(store[s].auth) => store'[s] \in {store[s], NoSession}]_vars

\* The directory has just denied membership to the user of a stored session,
\* while a request on that session is past the gate.
C13_Witness ==
  \E r1, r2 \in Req :
    /\ Done(r1) /\ req[r1].cause = "not_member"
    /\ req[r2].pc = "json" /\ CameAuthorized(r2)
    /\ req[r2].sessionID # NoSid
    /\ store[req[r2].sessionID].auth = req[r1].id.user

\* The gate's denials that come after the handshake named an identity.
IdentifiedDenialCauses == {"not_member", "member_check_failed", "resolve_failed"}

\* C14: a request the gate denied has exactly one audit event, auth_denied,
\* carrying the user label exactly when the handshake had produced an identity
\* (non-member, directory failure) and no user otherwise (no credential,
\* handshake error, no identity); a request that established its session has
\* exactly one audit event, auth_success with the user, from the step that
\* hands it to the downstream handlers on; the gate logs nothing else.
C14_GateAudit ==
  \A r \in Req :
    /\ (Done(r) /\ req[r].cause \in GateDenialCauses) =>
         /\ req[r].audit = <<[kind |-> "auth_denied", user |-> req[r].id.user]>>
         /\ (req[r].audit[1].user # Null) <=> (req[r].id # NoId)
         /\ (req[r].id # NoId) <=> (req[r].cause \in IdentifiedDenialCauses)
    /\ req[r].dirty =>
         /\ req[r].audit = <<[kind |-> "auth_success", user |-> req[r].id.user]>>
         /\ Truthy(req[r].id.user)
    /\ req[r].audit # <<>> =>
         \/ req[r].dirty
         \/ Done(r) /\ req[r].cause \in GateDenialCauses

C14_Witness ==
  \E r \in Req :
    /\ Done(r) /\ req[r].cause = "resolve_failed"
    /\ req[r].audit = <<[kind |-> "auth_denied", user |-> "CORP\\jdoe"]>>

\* C15: every request that requireCsrf rejected has a denial event in the
\* audit stream.
C15_CsrfRejectionAudited ==
  \A r \in Req :
    (Done(r) /\ req[r].cause = "csrf") =>
      \E i \in 1..Len(req[r].audit) : req[r].audit[i].kind = "auth_denied"

\* The request slots are all empty: no request is being served.
NoneServed == \A r \in Req : req[r].pc = "idle"

\* C17: requests are served only once main() has reached app.listen, which it
\* reaches only from a loaded configuration and a startup resolution that
\* succeeded; after a failure of loadConfig or of the startup resolution the
\* process can only exit, and no request is ever served.
C17_ServesOnlyAfterStartup ==
  /\ [](~NoneServed => proc = "serving")
  /\ [](proc \in {"resolved", "serving"} => startupCalls = 1)
  /\ [][(proc' = "serving" /\ proc # "serving") => proc = "resolved"]_vars
  /\ [][(proc' = "resolved" /\ proc # "resolved") => proc = "validating"]_vars
  /\ [][(proc' = "validating" /\ proc # "validating") => proc = "loading"]_vars
  /\ [][(proc \in {"configFailed", "resolveFailed", "setupFailed", "exited"}) =>
          /\ proc' \in {proc, "exited"}
          /\ NoneServed' /\ NoneServed]_vars

\* The process has exited after its startup resolution failed.
C17_Witness ==
  /\ proc = "exited"
  /\ startupCalls = 1
  /\ NoneServed

\* C16: a directory call that fails at request time neither ends the process
\* nor leaves its request without a response.
C16_DirectoryFailureAnswered ==
  /\ proc # "crashed"
  /\ \A r \in Req : req[r].pc # "unanswered"

\* The bytes of the gate's answer to a request without a credential header.
ExpectedChallenge ==
  [ended |-> TRUE, status |-> 401, contentType |-> "text/plain; charset=utf-8",
   cacheControl |-> "no-store", pragma |-> "no-cache",
   wwwAuthenticate |-> "Negotiate", setXsrf |-> NoCookie, body |-> "Access Denied"]

\* C18: a request with a credential header whose handshake reports an error
\* or yields no user or no account name is answered 401 'Access Denied' with
\* the challenge header, never 500, and its response is the same, header for
\* header, as the one for a request without a credential header; a request
\* with a credential header that leaves the gate without an identity left it
\* in no other way.
C18_HandshakeFailureIsChallenge ==
  \A r \in Req :
    /\ (Done(r) /\ req[r].cause \in {"sso_error", "no_identity"}) =>
         /\ req[r].hasAuth
         /\ req[r].res.status = 401
         /\ req[r].res.body = "Access Denied"
         /\ req[r].res = ExpectedChallenge
    /\ (Done(r) /\ req[r].cause = "no_credential") =>
         /\ ~req[r].hasAuth
         /\ req[r].res = ExpectedChallenge
    /\ (Done(r) /\ req[r].hasAuth /\ req[r].id = NoId /\ PassedOriginCheck(r)) =>
         req[r].cause \in {"sso_error", "no_identity"}

C18_Witness ==
  \E r \in Req :
    /\ Done(r) /\ req[r].cause = "sso_error" /\ req[r].hasAuth
    /\ req[r].res = ExpectedChallenge

\* C19: isUserInGroup returns true only if exactly one directory person
\* matches the account name and the membership filter: false when none
\* matches, false when more than one matches, false without a directory call
\* when the account name is empty after stripping a domain prefix, and a throw,
\* never true, on a directory error.
C19_ExactlyOnePerson ==
  ad.fn = "isUserInGroup" =>
    LET sam == stripDomainPrefix(ad.userName) IN
    /\ ad.out.result = "true" => (sam # <<>> /\ ad.up /\ ad.matching = 1)
    /\ (sam # <<>> /\ ad.up /\ ad.matching = 0) => ad.out.result = "false"
    /\ (sam # <<>> /\ ad.up /\ ad.matching > 1) => ad.out.result = "false"
    /\ sam = <<>> => (ad.out.result = "false" /\ ~ad.out.called)
    /\ (sam # <<>> /\ ~ad.up) => ad.out.result = "throws"

\* What isUserInGroup does: with its result list cut at one entry, it returns
\* true whenever at least one person matches.
IsUserInGroupAtLeastOne ==
  ad.fn = "isUserInGroup" =>
    LET sam == stripDomainPrefix(ad.userName) IN
    /\ ad.out.result = "true" => (sam # <<>> /\ ad.up /\ ad.matching >= 1)
    /\ (sam # <<>> /\ ad.up /\ ad.matching = 0) => ad.out.result = "false"
    /\ (sam # <<>> /\ ad.up /\ ad.matching >= 1) => ad.out.result = "true"
    /\ sam = <<>> => (ad.out.result = "false" /\ ~ad.out.called)
    /\ (sam # <<>> /\ ~ad.up) => ad.out.result = "throws"
    /\ ad.out.called =>
         ad.out.filter = MemberFilter(escapeLdapFilter(sam), <<DN1>>)

\* C20: resolveAllowedGroupDN succeeds exactly when the directory answers and
\* the group query matches one entry, and then returns that entry; when the
\* query matches no entry or more than one it fails with an error, and never
\* returns one of several candidates.
C20_ExactlyOneGroup ==
  ad.fn = "resolveAllowedGroupDN" =>
    /\ ad.out.state \in {"fulfilled", "rejected"}
    /\ (ad.out.state = "fulfilled") <=> (ad.up /\ Cardinality(ad.groups) = 1)
    /\ ad.out.state = "fulfilled" => ad.groups = {ad.out.groupDN}
    /\ ad.out.state = "rejected" => ad.out.groupDN = Null

\* Two entries match the group query of a directory that answers.
C20_Witness ==
  /\ ad.fn = "resolveAllowedGroupDN"
  /\ ad.up
  /\ Cardinality(ad.groups) > 1
  /\ ad.out.state = "rejected"

\* The call in view is one of resolveAndValidateCheckoutUser.
CheckoutCall == ad.fn = "resolveAndValidateCheckoutUser"

\* C21 as stated: every input that is not empty after trimming and is longer
\* than 256 characters or has a character other than letters, digits and
\* @ . _ - is rejected with null before any directory call.
C21_Original ==
  CheckoutCall =>
    LET v == trim(ad.input) IN
    (v # <<>> /\ (Len(v) > 256 \/ \E i \in 1..Len(v) : v[i] # "j")) =>
      (ad.out.kind = "null" /\ ~ad.out.called)

\* C21 amended: every input that is not empty after trimming and is longer
\* than 256 characters or has a character other than letters, digits,
\* @ . _ - and the backslash is rejected with null before any directory call;
\* an input of at most 256 such characters, the backslash included, is not
\* rejected by the syntax check and goes to the directory.
C21_SyntaxRejectedBeforeQuery ==
  CheckoutCall =>
    LET v == trim(ad.input)
        bad == Len(v) > 256 \/ \E i \in 1..Len(v) : v[i] \notin {"j", "\\"} IN
    /\ (v # <<>> /\ bad) => (ad.out.kind = "null" /\ ~ad.out.called)
    /\ (v # <<>> /\ ~bad) => ad.out.called

\* An input with a blank inside is rejected without a query.
C21_Witness ==
  /\ CheckoutCall
  /\ ad.input = <<"j", " ", "j">>
  /\ ad.out.kind = "null"
  /\ ~ad.out.called

\* C22: for an input that passes the syntax check, the directory is asked
\* for the name left after stripping a domain prefix, as a member of the
\* group; a label is returned only when the directory answers with exactly one
\* matching person, and it is that person's canonical, non-empty label; when
\* none or several match, or the canonical label is empty, the result is null
\* and carries no label.
C22_LabelOnlyForOneMember ==
  (CheckoutCall /\ ad.out.called) =>
    LET label == normalizeUserLabel(ad.domainLabel, ad.entry.sam, ad.entry.upn) IN
    /\ ad.out.filter =
         CheckoutFilter(escapeLdapFilter(stripDomainPrefix(ad.input)), <<DN1>>)
    /\ ad.out.kind = "ok" =>
         /\ ad.up /\ ad.matching = 1
         /\ ad.out.normalized = label
         /\ label # ""
    /\ (ad.up /\ ad.matching # 1) => ad.out.kind = "null"
    /\ (ad.up /\ ad.matching = 1 /\ label = "") => ad.out.kind = "null"
    /\ (ad.up /\ ad.matching = 1 /\ label # "") => ad.out.kind = "ok"
    /\ ad.out.kind # "ok" => ad.out.normalized = ""

\* A prefixed name that two persons of the group match.
C22_Witness ==
  /\ CheckoutCall
  /\ ad.input = <<"j", "\\", "j">>
  /\ ad.out.called
  /\ ad.out.filter.sAMAccountName = <<"j">>
  /\ ad.up /\ ad.matching = 2
  /\ ad.out.kind = "null"

\* The ways POST /api/checkout rejects a request.
CheckoutRejections == {"checkout_schema", "checkout_inventory", "checkout_user"}

\* The last event of a request's audit trail is a checkout_write.
WroteAudit(rq) ==
  rq.audit # <<>> /\ rq.audit[Len(rq.audit)].kind = "checkout_write"

\* C23: a checkout request whose body fails the schema, whose computer is not
\* in the inventory, or whose user validation returned null is answered 400
\* 'Invalid checkout user', changes no row of the checkout table and logs no
\* checkout_write; the table changes only in the step that answers 200 to a
\* request that passed all three checks, and that step logs the write.
C23_RejectedCheckoutWritesNothing ==
  /\ [](\A r \in Req :
          (Done(r) /\ req[r].method = "POST") =>
            LET b == req[r].body
                rejected ==
                  \/ b.computerName = ""
                  \/ Len(b.checkoutUser) > 256
                  \/ b.computerName \notin {"PC1", "pc1"}
                  \/ req[r].check.result = "null" IN
            IF rejected
            THEN /\ req[r].cause \in CheckoutRejections
                 /\ req[r].res.status = 400
                 /\ req[r].res.body = "Invalid checkout user"
                 /\ req[r].audit = <<>>
            ELSE /\ req[r].cause = "handler"
                 /\ req[r].res.status = 200
                 /\ WroteAudit(req[r]))
  /\ [][\A r \in Req :
          /\ (req[r].pc # "done" /\ req'[r].pc = "done"
                /\ req'[r].cause \in CheckoutRejections) => db' = db
          /\ (req[r].pc # "done" /\ req'[r].pc = "done"
                /\ req'[r].cause = "handler") =>
               /\ req'[r].check.result = "ok"
               /\ db'[req'[r].body.computerName].present]_vars
  /\ [][(db' # db) =>
          \E r \in Req :
            /\ req[r].pc = "validateUser" /\ req'[r].pc = "done"
            /\ req'[r].cause = "handler"
            /\ req'[r].res.status = 200]_vars

\* A request for a computer outside the inventory is rejected while another
\* computer has its row.
C23_Witness ==
  \E r \in Req :
    /\ Done(r) /\ req[r].cause = "checkout_inventory"
    /\ req[r].body.computerName = "PC9"
    /\ req[r].res.status = 400
    /\ db["PC1"].present
    /\ ~db["PC9"].present

\* The fixed escapes of escapeLdapFilter, after their backslash.
EscapeCodes ==
  {<<"5", "c">>, <<"2", "a">>, <<"2", "8">>, <<"2", "9">>, <<"0", "0">>}

\* The parentheses of a filter string, in order.
Parens(t) == SelectSeq(t, LAMBDA c : c \in {"(", ")"})

\* C24: the output of escapeLdapFilter has no asterisk, parenthesis or NUL,
\* and each backslash in it is followed by the two characters of one of the
\* fixed escapes; the filter isUserInGroup builds has the parentheses of its
\* template and no others, whatever the account name.
C24_EscapedFilterWellFormed ==
  /\ ad.fn = "escapeLdapFilter" =>
       \A i \in 1..Len(ad.out) :
         /\ ad.out[i] \notin {"*", "(", ")", "NUL"}
         /\ ad.out[i] = "\\" =>
              /\ i + 2 <= Len(ad.out)
              /\ <<ad.out[i + 1], ad.out[i + 2]>> \in EscapeCodes
  /\ (ad.fn = "isUserInGroup" /\ ad.out.called) =>
       Parens(MemberFilterText(ad.out.filter))
         = Parens(MemberFilterText(NoFilter))

\* An account name with a closing parenthesis went into the filter.
C24_Witness ==
  /\ ad.fn = "isUserInGroup"
  /\ ad.userName = <<"j", ")">>
  /\ ad.out.called
  /\ ad.out.filter.sAMAccountName = <<"j", "\\", "2", "9">>

\* C25: normalizeUserLabel gives DOMAIN\account when the domain label and the
\* account name are both non-empty, otherwise the principal name when it is
\* non-empty, otherwise the account name, otherwise the empty string.
C25_LabelPrecedence ==
  ad.fn = "normalizeUserLabel" =>
    LET qualified == ad.domainLabel = "CORP" /\ ad.entry.sam = "jdoe" IN
    /\ qualified => ad.out = "CORP\\jdoe"
    /\ (~qualified /\ ad.entry.upn # "") => ad.out = "jdoe@corp.local"
    /\ (~qualified /\ ad.entry.upn = "") => ad.out = ad.entry.sam
    /\ (ad.entry.sam = "" /\ ad.entry.upn = "") => ad.out = ""

\* Without a domain label the principal name is taken, not the account name.
C25_Witness ==
  /\ ad.fn = "normalizeUserLabel"
  /\ ad.domainLabel = Null
  /\ ad.entry = [sam |-> "jdoe", upn |-> "jdoe@corp.local"]
  /\ ad.out = "jdoe@corp.local"

\* Request r arrives in this step.
Arrives(r) == req[r].pc = "idle" /\ req'[r].pc = "origin"

\* C26: when POST /api/logout answers, the session of its request is gone
\* from the store; a session enters the store only when the request that
\* established it, after a membership check that returned true, ends, so a
\* destroyed session is not stored again; a request that arrives is authorized on arrival only through a
\* session the store holds at that moment, and otherwise starts on a fresh,
\* unauthorized session; and a request that was not authorized on arrival
\* reaches the body parser, the CSRF check and the routes only after a
\* handshake that gave an identity and a membership check that returned true.
C26_LogoutDestroysSession ==
  /\ [][\A r \in Req :
          (req[r].pc = "logout" /\ req'[r].pc = "done") =>
            /\ ~req'[r].session.exists
            /\ req[r].sessionID # NoSid => ~store'[req[r].sessionID].exists]_vars
  /\ [][\A s \in SIDs :
          (~store[s].exists /\ store'[s].exists) =>
            \E r \in Req :
              /\ req[r].sessionID = s /\ req[r].dirty
              /\ req[r].check.result = "true"
              /\ req[r].pc # "done" /\ req'[r].pc = "done"]_vars
  /\ [][\A r \in Req :
          Arrives(r) =>
            IF Truthy(req'[r].session.auth)
            THEN /\ req'[r].sessionID # NoSid
                 /\ store[req'[r].sessionID].exists
                 /\ req'[r].session = store[req'[r].sessionID]
            ELSE req'[r].session = FreshSession]_vars
  /\ [](\A r \in Req :
          (req[r].pc \in {"json", "csrf", "route"} /\ req[r].dirty) =>
            /\ req[r].id # NoId
            /\ req[r].check.called
            /\ req[r].check.result = "true")

\* The logout has answered and its session is gone from the store.
C26_Witness ==
  \E r \in Req :
    /\ Done(r) /\ req[r].cause = "handler"
    /\ req[r].method = "POST"
    /\ req[r].res.body = "{ok:true}"
    /\ req[r].sessionID # NoSid
    /\ ~store[req[r].sessionID].exists
    /\ nextSid > req[r].sessionID

\* C27: the group is searched by its security identifier exactly when the
\* configured spec matches the strict pattern, S-1- followed by digit groups
\* separated by dashes; every other spec is searched by name.
C27_SidOnlyByStrictPattern ==
  ad.fn = "GroupFilter" =>
    /\ ad.out.by = "objectSid" <=> StrictSid(trim(ad.input))
    /\ ad.out.by = "name" <=> ~StrictSid(trim(ad.input))

\* Every text with its escaped form.
EscapedForms == {<<w, escapeLdapFilter(w)>> : w \in EscTexts}

\* C28: no text other than the one escapeLdapFilter was called on has the
\* same escaped form.
C28_EscapeInjective ==
  ad.fn = "escapeLdapFilter" =>
    \A p \in EscapedForms : p[2] = ad.out => p[1] = ad.input

\* A text that reads like the escape of the asterisk is escaped to
\* something else than the asterisk is.
C28_Witness ==
  /\ ad.fn = "escapeLdapFilter"
  /\ ad.input = <<"\\", "2", "a">>
  /\ ad.out = <<"\\", "5", "c", "2", "a">>
  /\ ad.out # escapeLdapFilter(<<"*">>)

\* The checkout request in slot r names a computer of the inventory and
\* carries a checkoutUser that is empty or blank.
ClearsCheckout(r) ==
  /\ req[r].method = "POST"
  /\ req[r].body.computerName \in {"PC1", "pc1"}
  /\ req[r].body.checkoutUser \in {<<>>, <<" ">>}

\* C29: a checkout request with an empty or blank checkoutUser is validated
\* without a directory call, is always answered, with 200 and not with a
\* rejection, and leaves a row with an empty checkoutUser for the computer;
\* the write is logged.
C29_EmptyInputClearsCheckout ==
  /\ [](\A r \in Req :
          (Done(r) /\ ClearsCheckout(r)) =>
            /\ ~req[r].check.called
            /\ req[r].check.result = "ok"
            /\ req[r].cause = "handler"
            /\ req[r].res.status = 200
            /\ req[r].res.body = ""
            /\ db[req[r].body.computerName].present
            /\ db[req[r].body.computerName].checkoutUser = ""
            /\ WroteAudit(req[r]))
  /\ [][\A r \in Req :
          (req[r].pc = "validateUser" /\ ClearsCheckout(r)
             /\ req'[r] # req[r]) =>
            /\ req'[r].pc = "done"
            /\ proc' = proc]_vars

\* A blank checkoutUser was stored as an empty one.
C29_Witness ==
  \E r \in Req :
    /\ Done(r)
    /\ req[r].body = [computerName |-> "PC1", checkoutUser |-> <<" ">>]
    /\ req[r].res.status = 200
    /\ db["PC1"] = [present |-> TRUE, checkoutUser |-> "",
                     lastUpdatedBy |-> "CORP\\jdoe",
                     lastUpdatedAtUtc |-> toISOString(0)]

\* The label and the display name the claim gives a person of a group with
\* domain label d.
ExpectedMember(p, d) ==
  [user |-> IF d = "CORP" /\ p.sam # "" THEN "CORP\\" \o p.sam
            ELSE IF p.upn # "" THEN p.upn ELSE p.sam,
   displayName |-> IF p.displayName # "" THEN p.displayName
                   ELSE IF p.sam # "" THEN p.sam ELSE p.upn]

\* The number of entries of list that equal m.
Count(list, m) == Cardinality({i \in 1..Len(list) : list[i] = m})

\* The list returned has one entry for each result of the search that has a
\* label and no other entry, each with the display name of its result, or
\* else its account name, or else its principal name, in ascending order of
\* the labels.
SortedAndComplete ==
  LET expected == [i \in 1..Len(ad.input) |->
                     ExpectedMember(ad.input[i], ad.domainLabel)]
      labelled == SelectSeq(expected, LAMBDA m : m.user # "")
      got == ad.out.members IN
  /\ ~ad.out.threw
  /\ Len(got) = Len(labelled)
  /\ \A i \in 1..Len(labelled) :
       Count(got, labelled[i]) = Count(labelled, labelled[i])
  /\ \A i \in 1..(Len(got) - 1) :
       got[i].user = got[i + 1].user
       \/ <<got[i].user, got[i + 1].user>> \in
            {<<"CORP\\jdoe", "jdoe">>, <<"CORP\\jdoe", "jdoe@corp.local">>,
             <<"jdoe", "jdoe@corp.local">>}

\* C30: against a directory that answers, listAllowedGroupMembers returns the
\* results of the search that have a label, each once, with its display name
\* or the fallback for it, sorted by label.
C30_MembersSortedAndComplete ==
  (ad.fn = "listAllowedGroupMembers" /\ ad.up) => SortedAndComplete

\* What listAllowedGroupMembers does: it returns that list when the search
\* has a result, and throws when it has none.
ListMembersThrowsOnNone ==
  (ad.fn = "listAllowedGroupMembers" /\ ad.up) =>
    IF ad.input = <<>> THEN ad.out.threw ELSE SortedAndComplete

\* A GET /api/groupMembers request reaches its handler in this step.
MembersArrives(r) ==
  /\ req[r].pc = "idle"
  /\ req'[r].pc # "idle"
  /\ req'[r].method = "GET"

\* The enumeration of request r returns its list in this step.
MembersReturns(r) == req[r].pc = "listMembers" /\ req'[r].pc = "done"

\* C31: GET /api/groupMembers answers with the stored member list, without a
\* directory call, whenever a list was stored at most five minutes ago, for a
\* request of any session; when no list is stored or the stored one is older,
\* it calls the directory and a returned list replaces the stored one with
\* the time of the return. Nothing else changes the cache: a logout or the
\* expiry of a session leaves it as it is.
C31_MemberCacheFiveMinutes ==
  /\ [][\A r \in Req :
          MembersArrives(r) =>
            IF /\ statusCache.stored
               /\ now - statusCache.groupMembersAt <= FIVE_MINUTES
            THEN /\ req'[r].pc = "done"
                 /\ req'[r].res.status = 200
                 /\ req'[r].res.body = statusCache.members
                 /\ statusCache' = statusCache
            ELSE req'[r].pc = "listMembers"]_vars
  /\ [][\A r \in Req :
          MembersReturns(r) =>
            /\ statusCache'.stored
            /\ statusCache'.members = req'[r].res.body
            /\ statusCache'.groupMembersAt = now]_vars
  /\ [][(statusCache' # statusCache) => \E r \in Req : MembersReturns(r)]_vars
  /\ [][(\E s \in ApiSIDs : store[s].exists /\ ~store'[s].exists) =>
          statusCache' = statusCache]_vars

\* A request of the second session is answered with the stored list when the
\* list is exactly five minutes old and the first session is gone.
C31_Witness ==
  \E r \in Req :
    /\ Done(r)
    /\ req[r].method = "GET"
    /\ req[r].sessionID = 2
    /\ ~store[1].exists
    /\ statusCache.stored
    /\ statusCache.members # <<>>
    /\ now - statusCache.groupMembersAt = FIVE_MINUTES
    /\ req[r].res.body = statusCache.members

\* The spellings of the three safe methods among AnyMethods.
SafeSpellings == {"GET", "get", "Get", "HEAD", "head", "OPTIONS", "options"}

PassesGate(r) == req[r].pc \in {"authz", "awaitMember"} /\ req'[r].pc = "json"

\* The XSRF-TOKEN cookie as the claim describes it, for a token and a value of
\* DLT_COOKIE_SECURE; the client reads the token back by decoding the value.
IsXsrfCookie(c, token, e) ==
  /\ c.name = "XSRF-TOKEN"
  /\ decodeURIComponent(c.value) = token
  /\ c.path = "/"
  /\ c.sameSite = "Strict"
  /\ ~c.httpOnly
  /\ c.secure <=> (e = "true")

\* C33: when the gate hands a request on, for a session it found authorized
\* or has just established, the response carries the XSRF-TOKEN cookie with
\* the session's csrf token, Path=/, SameSite=Strict, no HttpOnly, and Secure
\* exactly when DLT_COOKIE_SECURE is 'true'; the cookie stays on the response
\* whatever answers the request afterwards; and a state-changing request whose
\* X-CSRF-Token header and XSRF-TOKEN cookie are the decoded value of that
\* cookie passes requireCsrf.
C33_CsrfCookieMirrorsToken ==
  /\ [][\A r \in Req :
          PassesGate(r) =>
            /\ req'[r].session.csrf \in Tokens
            /\ IsXsrfCookie(req'[r].res.setXsrf, req'[r].session.csrf, env)]_vars
  /\ [][\A r \in Req :
          (req[r].res.setXsrf # NoCookie /\ req'[r].pc # "idle") =>
            req'[r].res.setXsrf = req[r].res.setXsrf]_vars
  /\ [](\A r \in Req :
          (Done(r) /\ req[r].cause \in {"parse_error", "csrf", "handler"}) =>
            \E t \in Tokens : IsXsrfCookie(req[r].res.setXsrf, t, env))
  /\ [][\A r \in Req :
          ( /\ req[r].pc = "csrf"
            /\ StateChanging(r)
            /\ req'[r].header = decodeURIComponent(req[r].res.setXsrf.value)
            /\ req'[r].cookie = decodeURIComponent(req[r].res.setXsrf.value) )
          => req'[r].pc = "route"]_vars

\* A state-changing request that came on a stored session and echoed the
\* cookie of its response reached its handler, in a deployment that marks the
\* cookie Secure.
C33_Witness ==
  \E r \in Req :
    /\ Done(r)
    /\ req[r].cause = "handler"
    /\ StateChanging(r)
    /\ ~req[r].dirty
    /\ env = "true"
    /\ req[r].res.setXsrf.secure
    /\ req[r].header = decodeURIComponent(req[r].res.setXsrf.value)
    /\ req[r].cookie = req[r].header

\* The fields of a session the gate writes when it establishes it.
Established(session) ==
  <<session.auth, session.csrf, session.allowedGroupDN,
    session.allowedGroupDomain>>

\* C34: from its establishment until it is destroyed or expires, a session
\* keeps its csrf token, its user and its group DN, in the store and in every
\* request that carries it: a request passing through the gate, one rejected
\* by requireCsrf and one served by a route other than logout leave them alone.
C34_EstablishedFieldsFrozen ==
  /\ [][\A s \in SIDs :
          (Truthy(store[s].auth) /\ store'[s].exists) =>
            Established(store'[s]) = Established(store[s])]_vars
  /\ [][\A r \in Req :
          (Truthy(req[r].session.auth) /\ req'[r].session.exists) =>
            Established(req'[r].session) = Established(req[r].session)]_vars
  /\ [](\A r \in Req :
          (req[r].sessionID # NoSid /\ Truthy(req[r].session.auth)
             /\ store[req[r].sessionID].exists) =>
            Established(req[r].session) = Established(store[req[r].sessionID]))

\* A request on a stored session was rejected by requireCsrf, and the session
\* is in the store with the token it had.
C34_Witness ==
  \E r \in Req :
    /\ Done(r)
    /\ req[r].cause = "csrf"
    /\ ~req[r].dirty
    /\ req[r].sessionID # NoSid
    /\ store[req[r].sessionID].exists
    /\ store[req[r].sessionID].csrf \in Tokens
    /\ store[req[r].sessionID].csrf = req[r].session.csrf

\* C35: isUserInGroup does not read the domain of the identity: called for the
\* same account name under any other domain label, against the same
\* directory, it issues the same filter, which names the account and the group
\* only, and returns the same result.
C35_DomainNotConsulted ==
  ad.fn = "isUserInGroup" =>
    /\ \A d \in UserDomains :
         isUserInGroup(ad.up, ad.matching, d, ad.userName, DN1) = ad.out
    /\ ad.out.called =>
         ad.out.filter =
           [sAMAccountName |-> escapeLdapFilter(stripDomainPrefix(ad.userName)),
            memberOf |-> escapeLdapFilter(<<DN1>>)]

\* An identity of another domain than the group's was found to be a member.
C35_Witness ==
  /\ ad.fn = "isUserInGroup"
  /\ ad.domainLabel = "OTHER"
  /\ ad.out.called
  /\ ad.out.result = "true"

\* The same-origin middleware has just handled request r.
OriginChecked(r) == req[r].pc = "origin" /\ req'[r].pc # "origin"

\* The Origin header of r names another host than its Host header, or is not
\* a URL.
OriginDiffers(rq) ==
  UrlHost(rq.origin) = "throws" \/ UrlHost(rq.origin) # rq.host

\* Request r was answered by the same-origin middleware: 403 "Access Denied",
\* and nothing of the gate has run.
RejectedAtOrigin(r) ==
  /\ req'[r].pc = "done"
  /\ req'[r].res.status = 403
  /\ req'[r].res.body = "Access Denied"
  /\ req'[r].res.wwwAuthenticate = ""
  /\ req'[r].audit = <<>>
  /\ req'[r].id = NoId
  /\ req'[r].check = NoCheck
  /\ req'[r].session = req[r].session
  /\ UNCHANGED <<store, gateCalls, allowedGroupPromise>>

\* C36: a request with an Origin header whose host differs from its Host
\* header, or that is not a URL, is answered 403 "Access Denied" by the
\* same-origin middleware, before the gate runs and without an audit event,
\* whatever its session and credentials; a request without an Origin header
\* goes on to the gate.
C36_OriginCheckRejects ==
  [][\A r \in Req :
       OriginChecked(r) =>
         /\ (req'[r].origin # Null /\ OriginDiffers(req'[r]))
              => RejectedAtOrigin(r)
         /\ req'[r].origin = Null => req'[r].pc = "authz"]_vars

\* The same holds of every request whose Origin header is not empty, and the
\* middleware rejects no other request.
C36_NonEmptyOriginRejects ==
  [][\A r \in Req :
       OriginChecked(r) =>
         IF Truthy(req'[r].origin) /\ OriginDiffers(req'[r])
         THEN RejectedAtOrigin(r)
         ELSE req'[r].pc = "authz"]_vars

\* A request on a stored, authorized session was rejected for its Origin.
C36_Witness ==
  \E r \in Req :
    /\ Done(r)
    /\ req[r].cause = "origin_mismatch"
    /\ req[r].origin = "http://evil:9191"
    /\ req[r].host = "dlt:9191"
    /\ Truthy(req[r].session.auth)
    /\ req[r].res.status = 403

\* GET /api/status has just answered request r.
StatusAnswers(r) ==
  req[r].pc = "idle" /\ req'[r].pc = "done" /\ req'[r].method = "GET"

\* The table holds the row of an accepted checkout under the name n, and no
\* row under another spelling of n: the last accepted checkout for that
\* computer spelt it n and stored db[n].checkoutUser.
LastCheckoutSpelt(n) ==
  /\ db[n].present
  /\ \A m \in ComputerNames \ {n} :
       toLowerCase(m) = toLowerCase(n) => ~db[m].present

\* The rows of the answer of r for the configured computer that n names.
RowsFor(r, n) ==
  {i \in 1..Len(req'[r].res.body) :
     toLowerCase(req'[r].res.body[i].computerName) = toLowerCase(n)}

\* C37: after an accepted checkout of a computer, under any spelling of its
\* name that the inventory test accepts, the next answer of GET /api/status
\* shows the stored checkoutUser on the row of that computer.
C37_CheckoutShownInStatus ==
  [][\A r \in Req :
       StatusAnswers(r) =>
         \A n \in ComputerNames :
           LastCheckoutSpelt(n) =>
             \A i \in RowsFor(r, n) :
               req'[r].res.body[i].checkoutUser = db[n].checkoutUser]_vars

\* The same holds of a checkout that spelt the name as the configuration does.
C37_ConfiguredSpellingShown ==
  [][\A r \in Req :
       StatusAnswers(r) =>
         \A n \in Computers :
           LastCheckoutSpelt(n) =>
             \A i \in RowsFor(r, n) :
               /\ req'[r].res.body[i].checkoutUser = db[n].checkoutUser
               /\ req'[r].res.body[i].lastUpdatedBy = db[n].lastUpdatedBy]_vars

\* A checkout spelt as configured is shown by the status answer.
C37_Witness ==
  \E r \in Req :
    /\ Done(r)
    /\ req[r].method = "GET"
    /\ Len(req[r].res.body) = 1
    /\ req[r].res.body[1].computerName = "PC1"
    /\ req[r].res.body[1].checkoutUser = "CORP\\jdoe"
    /\ db["PC1"].present

\* The calls of poll() that have stored their statuses.
PollsSet == {p \in 1..Len(polls) : polls[p].state = "set"}

\* The one of them that started last.
LastStarted(ps) == CHOOSE p \in ps : \A q \in ps : q <= p

\* C38: the status cache holds the statuses of the poll that started last
\* among those that have completed: a poll that started earlier and completes
\* later does not replace them; a poll that fails leaves the statuses as they
\* were.
C38_LatestStartedPollWins ==
  /\ [](PollsSet # {} =>
          statusCache.statuses = polls[LastStarted(PollsSet)].result)
  /\ [][\A p \in 1..Len(polls) :
          (polls[p].state = "running" /\ polls'[p].state = "failed") =>
            statusCache' = statusCache]_vars

\* A poll that fails leaves the statuses as they were, and one that returns
\* stores what it returned, whichever polls completed before it.
C38_PollStoresItsResult ==
  [][\A p \in 1..Len(polls) :
       /\ (polls[p].state = "running" /\ polls'[p].state = "failed") =>
            statusCache' = statusCache
       /\ (polls[p].state = "running" /\ polls'[p].state = "set") =>
            statusCache'.statuses = polls'[p].result]_vars

\* Two polls overlapped and the one that started first completed last.
C38_Witness ==
  /\ Len(polls) >= 2
  /\ polls[1].state = "set"
  /\ polls[2].state = "set"
  /\ statusCache.statuses = polls[1].result
  /\ polls[1].result # polls[2].result

\* getGroupMembers() returns null in this state.
CacheMisses ==
  ~statusCache.stored \/ now - statusCache.groupMembersAt > FIVE_MINUTES

\* Enumerations of the member list that are in flight.
Enumerating == {q \in Req : req[q].pc = "listMembers"}

\* C39: the enumeration of the member list is not single-flight: a GET
\* /api/groupMembers that finds the cache empty or expired issues its own
\* directory call, also while the calls of other requests are in flight, and
\* each call that returns stores its list and the time of its return, so the
\* cache holds those of the call that returned last.
C39_EnumerationNotSingleFlight ==
  /\ [][\A r \in Req :
          (MembersArrives(r) /\ CacheMisses) =>
            /\ req'[r].pc = "listMembers"
            /\ Enumerating' = Enumerating \cup {r}]_vars
  /\ [][\A r \in Req :
          MembersReturns(r) =>
            statusCache' =
              [statusCache EXCEPT !.stored = TRUE,
                                  !.members = req'[r].res.body,
                                  !.groupMembersAt = now]]_vars
  /\ [][(statusCache' # statusCache) => \E r \in Req : MembersReturns(r)]_vars

\* Two calls were in flight; the first to return has stored its list, and the
\* other one is still to return and to replace it.
C39_Witness ==
  \E r, q \in Req :
    /\ r # q
    /\ req[r].pc = "listMembers"
    /\ Done(q)
    /\ req[q].cause = "handler"
    /\ req[q].method = "GET"
    /\ ~CacheMisses
    /\ statusCache.groupMembersAt = now
    /\ statusCache.members = req[q].res.body
    /\ statusCache.members # <<>>

\* The time stamp of a row is not a date, or lies more than seven days back.
TooOld(row) ==
  \/ row.lastUpdatedAtUtc.kind # "iso"
  \/ now - row.lastUpdatedAtUtc.ms > SEVEN_DAYS_MS

\* n is the whole number of days between the time stamp of the row and now.
WholeDays(row, n) ==
  /\ n * DAY_MS <= now - row.lastUpdatedAtUtc.ms
  /\ now - row.lastUpdatedAtUtc.ms < (n + 1) * DAY_MS

\* C40: readCheckoutMap reports a row as empty (checkoutUser '', no age, no
\* editor, no time stamp) and deletes it exactly when its time stamp is not a
\* date or more than seven days old; every other row is reported as stored,
\* with the whole number of days since its time stamp, and is left as it is.
\* GET /api/status answers what readCheckoutMap reported for the configured
\* name.
C40_ExpiredRowsReportedEmpty ==
  [][\A r \in Req :
       StatusAnswers(r) =>
         LET checkouts == readCheckoutMap(db, now).result IN
         /\ \A c \in ComputerNames :
              IF ~db[c].present
              THEN ~checkouts[c].has /\ db'[c] = db[c]
              ELSE IF TooOld(db[c])
              THEN /\ checkouts[c] = [NoRecord EXCEPT !.has = TRUE]
                   /\ checkouts[c].checkoutUser = ""
                   /\ checkouts[c].checkoutAgeDays = <<>>
                   /\ ~db'[c].present
              ELSE /\ checkouts[c].has
                   /\ checkouts[c].checkoutUser = db[c].checkoutUser
                   /\ checkouts[c].lastUpdatedBy = db[c].lastUpdatedBy
                   /\ checkouts[c].lastUpdatedAtUtc = db[c].lastUpdatedAtUtc
                   /\ Len(checkouts[c].checkoutAgeDays) = 1
                   /\ WholeDays(db[c], checkouts[c].checkoutAgeDays[1])
                   /\ db'[c] = db[c]
         /\ \A i \in 1..Len(req'[r].res.body) :
              LET row == req'[r].res.body[i]
                  c == checkouts[row.computerName] IN
              /\ row.checkoutUser = c.checkoutUser
              /\ row.checkoutAgeDays = c.checkoutAgeDays
              /\ row.lastUpdatedAt = c.lastUpdatedAtUtc]_vars

\* A row exactly seven days old was reported with its user and an age of
\* seven days, and is still in the table.
C40_Witness ==
  \E r \in Req :
    /\ Done(r)
    /\ req[r].method = "GET"
    /\ Len(req[r].res.body) = 1
    /\ req[r].res.body[1].checkoutUser = "CORP\\asmith"
    /\ req[r].res.body[1].checkoutAgeDays = <<7>>
    /\ db["PC1"].present
    /\ now - db["PC1"].lastUpdatedAtUtc.ms = SEVEN_DAYS_MS
====
